---- MODULE Spec2Model ----
(***************************************************************************)
(* Model of the generation pipeline of anime-storyboard:                   *)
(*   server/routes.ts         the three generation handlers                *)
(*   server/image-provider.ts the generation client, startup seeding and   *)
(*                            the project registry handlers                *)
(*   server/storage.ts        the job / asset / rendition ledger and the   *)
(*                            project / project asset / scene / frame rows *)
(*   shared/routes.ts         request validation                           *)
(*   shared/schema.ts         column defaults                              *)
(* Every await of a handler is one atomic step; handlers of different      *)
(* requests interleave at their awaits.                                    *)
(***************************************************************************)
EXTENDS Integers, Sequences, FiniteSets, TLC

VARIABLES jobs, assets, renditions, run, jobLog,
          env, clientCalls,
          projects, projectAssets, compiledScenes, sceneFrames, task, clock

\* the ledger and the generation requests
ledgerVars == <<jobs, assets, renditions, jobLog>>

\* process.env and the calls of the generation client exercised on its own
clientVars == <<env, clientCalls>>

\* the project registry, its request-handling tasks and Date.now()
registryVars == <<projects, projectAssets, compiledScenes, sceneFrames, task, clock>>

vars == <<jobs, assets, renditions, run, jobLog, env, clientCalls,
          projects, projectAssets, compiledScenes, sceneFrames, task, clock>>

(***************************************************************************)
(* Bounds of the model.                                                    *)
(***************************************************************************)
\* number of requests handled concurrently (each request is one pipeline run)
MaxRuns == 2
\* total number of generation calls the concurrent requests plan
MaxCalls == 3
\* the largest scene count of a storyboard request handled concurrently
MaxScenes == 2
\* the largest asset count per category of a project-pack request
MaxCount == 2

(***************************************************************************)
(* Small helpers.                                                          *)
(***************************************************************************)
Min(a, b) == IF a < b THEN a ELSE b

Max(a, b) == IF a > b THEN a ELSE b

\* Array.prototype.slice(from, to) on a 0-based array kept as a 1-based sequence
Slice(s, from, to) == SubSeq(s, from + 1, Min(to, Len(s)))

RECURSIVE Flatten(_)
Flatten(ss) == IF ss = <<>> THEN <<>> ELSE Head(ss) \o Flatten(Tail(ss))

\* Math.round(a / b * 100) for naturals a <= b, b > 0: halves round up
RoundPercent(a, b) == (200 * a + b) \div (2 * b)

(***************************************************************************)
(* Scripts.  A script is kept as the sequence of its blank-line-separated  *)
(* paragraphs, a paragraph as the sequence of its lines, a line as its     *)
(* trimmed text, its length in characters, the capitalised word it holds   *)
(* ("" for none) and whether it holds an environment or a nature keyword.  *)
(* Every line is one sentence ending in punctuation, so the sentence split *)
(* of a script yields its lines.  pad counts the whitespace around a       *)
(* script (a whitespace-only script has no paragraph at all), prefix is    *)
(* its first 120 characters: the whole script when it is that short, which *)
(* is its only line when it has one line and no padding.                   *)
(***************************************************************************)
Line(text, len, name, hasEnv, hasNat) ==
  [text |-> text, len |-> len, name |-> name, env |-> hasEnv, nat |-> hasNat]

ScriptFourParas ==
  [pad |-> 0, prefix |-> "p1 p2 p3 p4",
   paras |-> << <<Line("p1", 30, "Aiko", TRUE, FALSE)>>,
                <<Line("p2", 30, "", FALSE, TRUE)>>,
                <<Line("p3", 30, "Kenji", FALSE, FALSE)>>,
                <<Line("p4", 30, "Aiko", TRUE, TRUE)>> >>]

ScriptOnePara ==
  [pad |-> 0, prefix |-> "s1 s2 s3",
   paras |-> << <<Line("s1", 25, "", FALSE, FALSE),
                  Line("s2", 10, "", FALSE, FALSE),
                  Line("s3", 40, "", FALSE, FALSE)>> >>]

ScriptPlain ==
  [pad |-> 0, prefix |-> "q1", paras |-> << <<Line("q1", 20, "", FALSE, FALSE)>> >>]

ScriptBlank ==
  [pad |-> 20, prefix |-> " ", paras |-> <<>>]

ScriptTooShort ==
  [pad |-> 0, prefix |-> "t1", paras |-> << <<Line("t1", 10, "", FALSE, FALSE)>> >>]

\* two paragraphs whose lines hold the words Al, NASA, Aiko, Aiko, Mika and
\* Kenji; the second line is short, the keyword lines are not the first ones
\* and only one of the long lines holds an environment keyword
ScriptNames ==
  [pad |-> 0, prefix |-> "n1 n2 n3 n4 n5 n6",
   paras |-> << <<Line("n1", 30, "Al", FALSE, FALSE),
                  Line("n2", 15, "NASA", TRUE, TRUE),
                  Line("n3", 30, "Aiko", FALSE, TRUE)>>,
                <<Line("n4", 30, "Aiko", TRUE, FALSE),
                  Line("n5", 30, "Mika", FALSE, FALSE),
                  Line("n6", 30, "Kenji", FALSE, TRUE)>> >>]

Scripts ==
  {ScriptFourParas, ScriptOnePara, ScriptPlain, ScriptBlank, ScriptTooShort, ScriptNames}

\* the capitalised words of the scripts: the number of their leading capital
\* letters and of the lower-case letters that follow
WordShape(word) ==
  IF word = "Al" THEN [capitals |-> 1, lowers |-> 1]
  ELSE IF word = "NASA" THEN [capitals |-> 4, lowers |-> 0]
  ELSE IF word = "Kenji" THEN [capitals |-> 1, lowers |-> 4]
  ELSE [capitals |-> 1, lowers |-> 3]

\* /\b[A-Z][a-z]{2,}\b/: one capital letter, then two or more lower-case letters
MatchesNamePattern(word) ==
  WordShape(word).capitals = 1 /\ WordShape(word).lowers >= 2

AllLines(script) == Flatten(script.paras)

RECURSIVE SumLen(_)
SumLen(lines) == IF lines = <<>> THEN 0 ELSE Head(lines).len + SumLen(Tail(lines))

\* script.length: the lines, one newline between two lines of a paragraph,
\* two between two paragraphs, and the padding
ScriptLength(script) ==
  LET n == Len(AllLines(script))
      p == Len(script.paras)
  IN  script.pad + SumLen(AllLines(script))
        + (IF n > 0 THEN n - 1 ELSE 0) + (IF p > 0 THEN p - 1 ELSE 0)

\* the text of a paragraph or of a sentence, as the sequence of its line texts
TextsOf(lines) == [k \in 1..Len(lines) |-> lines[k].text]

(***************************************************************************)
(* Text segmenter.                                                         *)
(***************************************************************************)
\* script.split(/\n\s*\n/g).map(trim).filter(Boolean)
Blocks(script) == [k \in 1..Len(script.paras) |-> TextsOf(script.paras[k])]

\* script.split(/(?<=[.!?])\s+/).map(trim).filter(part => part.length > 20)
Sentences(script) ==
  LET long == SelectSeq(AllLines(script), LAMBDA l : l.len > 20)
  IN  [k \in 1..Len(long) |-> <<long[k].text>>]

RawScenes(script) ==
  IF Len(Blocks(script)) >= 2 THEN Blocks(script) ELSE Sentences(script)

\* the loop that cuts rawScenes into `effective` contiguous groups
SceneChunks(rawScenes, targetCount) ==
  LET effective == Max(2, targetCount)
      n == Len(rawScenes)
      chunkAt(i) ==
        LET start == (i * n) \div effective
            end == ((i + 1) * n) \div effective
        IN  Flatten(Slice(rawScenes, start, Max(start + 1, end)))
      all == [k \in 1..effective |-> chunkAt(k - 1)]
  IN  SelectSeq(all, LAMBDA text : text # <<>>)

\* mutant: the final slice keeps one chunk too few
normalizeScriptScenesShort(script, targetCount) ==
  LET chunks == Slice(SceneChunks(RawScenes(script), targetCount), 0, targetCount - 1)
  IN  [idx \in 1..Len(chunks) |->
         [index |-> idx,
          summary |-> chunks[idx],
          composition |-> IF (idx - 1) % 2 = 0 THEN "wide" ELSE "medium"]]

normalizeScriptScenes(script, targetCount) ==
  LET chunks == Slice(SceneChunks(RawScenes(script), targetCount), 0, targetCount)
  IN  [idx \in 1..Len(chunks) |->
         [index |-> idx,
          summary |-> chunks[idx],
          composition |-> IF (idx - 1) % 2 = 0 THEN "wide" ELSE "medium"]]

(***************************************************************************)
(* Entity / keyword extractor.                                             *)
(***************************************************************************)
\* mutant: every occurrence is kept
DedupeKeepAll(seq, seen) == seq

RECURSIVE Dedupe(_, _)
\* Array.from(new Set(seq)): first occurrences, in order
Dedupe(seq, seen) ==
  IF seq = <<>> THEN <<>>
  ELSE IF Head(seq) \in seen THEN Dedupe(Tail(seq), seen)
  ELSE <<Head(seq)>> \o Dedupe(Tail(seq), seen \cup {Head(seq)})

pickTopLines(script, limit) ==
  Slice(SelectSeq(AllLines(script), LAMBDA l : l.len > 20), 0, limit)

extractCharacterCandidates(script, count) ==
  LET named == SelectSeq(AllLines(script),
                         LAMBDA l : l.name # "" /\ MatchesNamePattern(l.name))
      names == Dedupe([k \in 1..Len(named) |-> named[k].name], {})
  IN  Slice(names, 0, count)

\* mutant: the lines in script order, whether they match or not
KeywordCandidatesScriptOrder(lines, keyword, count) ==
  LET picked == Slice(lines, 0, count)
  IN  [k \in 1..Len(picked) |-> picked[k].text]

\* matching lines first, then the lines that equal no matching line
\* keyword names the field of a line telling whether it matches the keyword list
KeywordCandidates(lines, keyword, count) ==
  LET matches == SelectSeq(lines, LAMBDA l : l[keyword])
      matchSet == {matches[k] : k \in 1..Len(matches)}
      fallback == SelectSeq(lines, LAMBDA l : l \notin matchSet)
      picked == Slice(matches \o fallback, 0, count)
  IN  [k \in 1..Len(picked) |-> picked[k].text]

extractEnvironmentCandidates(script, count) ==
  KeywordCandidates(pickTopLines(script, 40), "env", count)

extractNatureCandidates(script, count) ==
  KeywordCandidates(pickTopLines(script, 40), "nat", count)

\* input.script.slice(0, 120)
ScriptPrefix(script) == script.prefix

(***************************************************************************)
(* Request validation (shared/routes.ts) and the inputs considered.        *)
(***************************************************************************)
SupportedSizes == {"1024x1024", "512x512", "256x256"}

\* z.number().int().min(2).max(8) of sceneCount
MinSceneCount == 2

MaxSceneCount == 8

\* z.number().int().min(1).max(6) of the three category counts
MinCategoryCount == 1

MaxCategoryCount == 6

\* z.string().min(20) of script
MinScriptLength == 20

\* z.string().min(1).max(120) of projectName
MinProjectNameLength == 1

MaxProjectNameLength == 120

\* z.array(z.number().int().positive()).max(24) of referenceAssetIds
MaxReferenceAssetIds == 24

\* z.enum of assetCategory
AssetCategories == {"character", "environment", "nature", "general"}

\* a project name of 121 characters
LongProjectName == "project name of 121 characters"

\* name.length of the project names used: "" is the empty (or, where the
\* field is optional, the absent) name, every other name but the long one is short
ProjectNameLength(name) ==
  IF name = "" THEN 0 ELSE IF name = LongProjectName THEN MaxProjectNameLength + 1 ELSE 1

ValidProjectName(name) ==
  /\ ProjectNameLength(name) >= MinProjectNameLength
  /\ ProjectNameLength(name) <= MaxProjectNameLength

ValidSize(size) == size = "" \/ size \in SupportedSizes

\* mutant: the prompt may be empty
ValidImageInputAnyPrompt(input) ==
  /\ input.projectName = "" \/ ValidProjectName(input.projectName)
  /\ input.assetCategory = "" \/ input.assetCategory \in AssetCategories
  /\ ValidSize(input.size)

ValidImageInput(input) ==
  /\ input.prompt # ""
  /\ input.projectName = "" \/ ValidProjectName(input.projectName)
  /\ input.assetCategory = "" \/ input.assetCategory \in AssetCategories
  /\ ValidSize(input.size)

ValidProjectPackInput(input) ==
  /\ ValidProjectName(input.projectName)
  /\ ScriptLength(input.script) >= MinScriptLength
  /\ input.characterCount >= MinCategoryCount /\ input.characterCount <= MaxCategoryCount
  /\ input.environmentCount >= MinCategoryCount /\ input.environmentCount <= MaxCategoryCount
  /\ input.natureCount >= MinCategoryCount /\ input.natureCount <= MaxCategoryCount
  /\ ValidSize(input.size)

ValidStoryboardInput(input) ==
  /\ ScriptLength(input.script) >= MinScriptLength
  /\ input.sceneCount >= MinSceneCount /\ input.sceneCount <= MaxSceneCount
  /\ ValidProjectName(input.projectName)
  /\ Cardinality(input.referenceAssetIds) <= MaxReferenceAssetIds
  /\ \A id \in input.referenceAssetIds : id > 0
  /\ ValidSize(input.size)

NoInput ==
  [prompt |-> "", script |-> ScriptBlank, sceneCount |-> 0, projectName |-> "",
   characterCount |-> 0, environmentCount |-> 0, natureCount |-> 0, size |-> "",
   assetCategory |-> "", referenceAssetIds |-> {}]

Request(flow, input) == [flow |-> flow, input |-> input]

\* "" stands for an absent optional field; "2048x2048" is no size bucket
ImageRequests(prompts, sizes) ==
  {Request("image", [NoInput EXCEPT !.prompt = p, !.size = z]) :
     p \in prompts, z \in sizes}

ProjectPackRequests(scripts, counts, sizes) ==
  {Request("pack", [NoInput EXCEPT !.projectName = "P", !.script = s,
                      !.characterCount = c, !.environmentCount = e,
                      !.natureCount = t, !.size = z]) :
     s \in scripts, c \in counts, e \in counts \ {0}, t \in counts \ {0}, z \in sizes}

StoryboardRequests(scripts, sceneCounts, sizes) ==
  {Request("storyboard", [NoInput EXCEPT !.projectName = "P", !.script = s,
                            !.sceneCount = k, !.size = z]) :
     s \in scripts, k \in sceneCounts, z \in sizes}

\* the requests with the project name replaced
WithProjectName(requests, names) ==
  {Request(x.flow, [x.input EXCEPT !.projectName = n]) : x \in requests, n \in names}

\* image requests tagged with a project and a category
TaggedImageRequests(prompts, names, categories) ==
  {Request("image", [NoInput EXCEPT !.prompt = p, !.projectName = n,
                       !.assetCategory = c]) :
     p \in prompts, n \in names, c \in categories}

\* the storyboard requests with an explicit reference-asset-id list
WithReferenceAssetIds(requests, idLists) ==
  {Request(x.flow, [x.input EXCEPT !.referenceAssetIds = ids]) :
     x \in requests, ids \in idLists}

(***************************************************************************)
(* Helpers of the handlers (server/routes.ts).                             *)
(***************************************************************************)
\* mutant: an unknown size falls back to 512 x 512
sizeToDimsSmallDefault(size) ==
  IF size = "256x256" THEN [width |-> 256, height |-> 256]
  ELSE [width |-> 512, height |-> 512]

sizeToDims(size) ==
  IF size = "256x256" THEN [width |-> 256, height |-> 256]
  ELSE IF size = "512x512" THEN [width |-> 512, height |-> 512]
  ELSE [width |-> 1024, height |-> 1024]

\* input.size ?? "1024x1024"
SizeOrDefault(size) == IF size = "" THEN "1024x1024" ELSE size

\* createCategoryAssets: descriptors.length ? descriptors : [script.slice(0, 120)]
EffectiveDescriptors(category, descriptors, script) ==
  LET effective == IF descriptors # <<>> THEN descriptors ELSE <<ScriptPrefix(script)>>
  IN  [k \in 1..Len(effective) |-> [category |-> category, descriptor |-> effective[k]]]

\* mutant: the nature assets are created first
ProjectAssetPlanNatureFirst(input) ==
  EffectiveDescriptors("nature",
      extractNatureCandidates(input.script, input.natureCount), input.script)
  \o EffectiveDescriptors("character",
      extractCharacterCandidates(input.script, input.characterCount), input.script)
  \o EffectiveDescriptors("environment",
      extractEnvironmentCandidates(input.script, input.environmentCount), input.script)

\* generateProjectAssetSet: the generation calls in the order they are made
ProjectAssetPlan(input) ==
  EffectiveDescriptors("character",
      extractCharacterCandidates(input.script, input.characterCount), input.script)
  \o EffectiveDescriptors("environment",
      extractEnvironmentCandidates(input.script, input.environmentCount), input.script)
  \o EffectiveDescriptors("nature",
      extractNatureCandidates(input.script, input.natureCount), input.script)

(***************************************************************************)
(* Generation client (server/image-provider.ts).  The provider answers     *)
(* with an image, with an empty image list, or with an error.              *)
(***************************************************************************)
ProviderResponses == {"image", "empty", "error"}

Returned(b64) == [threw |-> FALSE, b64 |-> b64]

Threw == [threw |-> TRUE, b64 |-> ""]

\* mutant: an empty image list is returned as an empty payload, not thrown
generateWithOpenAINoThrow(response) ==
  IF response = "error" THEN Threw
  ELSE Returned(IF response = "image" THEN "base64-png" ELSE "")

generateWithOpenAI(response) ==
  IF response = "error" THEN Threw
  ELSE LET base64 == IF response = "image" THEN "base64-png" ELSE ""
       IN  IF base64 = "" THEN Threw ELSE Returned(base64)

\* process.env as far as the client reads it; "" is an unset variable
Envs ==
  [IMAGE_PROVIDER : {"", "openai", "bedrock", "Bedrock"},
   BEDROCK_API_KEY : {"", "key"},
   AWS_ACCESS_KEY_ID : {"", "AKIA"},
   AWS_SECRET_ACCESS_KEY : {"", "secret"},
   AWS_SESSION_TOKEN : {"", "session"}]

\* the environment of a deployment that uses Backend A
OpenAIEnv ==
  [IMAGE_PROVIDER |-> "", BEDROCK_API_KEY |-> "", AWS_ACCESS_KEY_ID |-> "",
   AWS_SECRET_ACCESS_KEY |-> "", AWS_SESSION_TOKEN |-> ""]

ToLowerCase(s) == IF s = "Bedrock" THEN "bedrock" ELSE s

getImageProvider(e) ==
  IF ToLowerCase(e.IMAGE_PROVIDER) = "bedrock" THEN "bedrock" ELSE "openai"

\* the value of a property the object does not have, as a template prints it
Undefined == "undefined"

\* the headers the signature covers, sorted
SignedHeaders(sessionToken) ==
  <<"content-type", "host", "x-amz-content-sha256", "x-amz-date">>
    \o (IF sessionToken # "" THEN <<"x-amz-security-token">> ELSE <<>>)

\* HMAC chain over the string to sign: determined by the secret key and by
\* what is signed
Signature(secretAccessKey, sessionToken) ==
  [key |-> secretAccessKey, signed |-> SignedHeaders(sessionToken)]

\* mutant: the request is signed whenever signing credentials are configured
buildBedrockAuthHeadersAlwaysSigned(e) ==
  IF e.AWS_ACCESS_KEY_ID = "" \/ e.AWS_SECRET_ACCESS_KEY = ""
  THEN IF e.BEDROCK_API_KEY # ""
       THEN [threw |-> FALSE, sessionToken |-> "", authorization |-> <<>>,
             apiKey |-> e.BEDROCK_API_KEY]
       ELSE [threw |-> TRUE, sessionToken |-> "", authorization |-> <<>>, apiKey |-> Undefined]
  ELSE [threw |-> FALSE, sessionToken |-> e.AWS_SESSION_TOKEN,
        authorization |-> <<[credential |-> e.AWS_ACCESS_KEY_ID,
                             signature |-> Signature(e.AWS_SECRET_ACCESS_KEY,
                                                     e.AWS_SESSION_TOKEN)]>>,
        apiKey |-> IF e.BEDROCK_API_KEY # "" THEN e.BEDROCK_API_KEY ELSE Undefined]

\* buildBedrockAuthHeaders: authorization is <<>> for undefined, else the one
\* AWS4-HMAC-SHA256 value
buildBedrockAuthHeaders(e) ==
  IF e.BEDROCK_API_KEY # ""
  THEN [threw |-> FALSE, sessionToken |-> "", authorization |-> <<>>,
        apiKey |-> e.BEDROCK_API_KEY]
  ELSE IF e.AWS_ACCESS_KEY_ID = "" \/ e.AWS_SECRET_ACCESS_KEY = ""
  THEN [threw |-> TRUE, sessionToken |-> "", authorization |-> <<>>, apiKey |-> Undefined]
  ELSE [threw |-> FALSE, sessionToken |-> e.AWS_SESSION_TOKEN,
        authorization |-> <<[credential |-> e.AWS_ACCESS_KEY_ID,
                             signature |-> Signature(e.AWS_SECRET_ACCESS_KEY,
                                                     e.AWS_SESSION_TOKEN)]>>,
        apiKey |-> Undefined]

\* the headers of the fetch call of generateWithBedrock: each optional header
\* is <<>> when it is not sent, else the one value sent
BedrockHeaders(auth) ==
  [Authorization |-> <<"Bearer", auth.apiKey>>,
   xAmzSecurityToken |-> IF auth.sessionToken # "" THEN <<auth.sessionToken>> ELSE <<>>,
   authorization |-> auth.authorization,
   xApiKey |-> IF auth.apiKey # Undefined THEN <<auth.apiKey>> ELSE <<>>]

\* no request was sent
NoHeaders ==
  [Authorization |-> <<>>, xAmzSecurityToken |-> <<>>, authorization |-> <<>>,
   xApiKey |-> <<>>]

\* generateWithBedrock: the request sent (if any) and what the call yields
generateWithBedrock(e, response) ==
  LET auth == buildBedrockAuthHeaders(e)
  IN  IF auth.threw THEN [sent |-> FALSE, headers |-> NoHeaders, result |-> Threw]
      ELSE [sent |-> TRUE, headers |-> BedrockHeaders(auth),
            result |-> IF response = "image" THEN Returned("base64-png") ELSE Threw]

generateImageBase64(response) ==
  IF getImageProvider(env) = "bedrock" THEN generateWithBedrock(env, response).result
  ELSE generateWithOpenAI(response)

(***************************************************************************)
(* Ledger (server/storage.ts over shared/schema.ts).  Row ids are the      *)
(* positions in the tables.                                                *)
(***************************************************************************)
\* a row with the given columns overwritten
Merge(row, updates) ==
  [f \in DOMAIN row |-> IF f \in DOMAIN updates THEN updates[f] ELSE row[f]]

createJob(table) ==
  Append(table, [status |-> "queued", progress |-> 0, error |-> "", completed |-> FALSE])

\* mutant: the update has no where clause and writes every row
updateJobEveryRow(table, id, updates) ==
  [k \in DOMAIN table |-> Merge(table[k], updates)]

updateJob(table, id, updates) ==
  IF id \in DOMAIN table THEN [table EXCEPT ![id] = Merge(@, updates)] ELSE table

createAsset(table, input) == Append(table, input)

\* mutant: the rendition row is inserted twice
createRenditionTwice(table, input) == Append(Append(table, input), input)

createRendition(table, input) == Append(table, input)

\* the history of a job row: the status and progress after each write, and the writer
LogWrite(log, table, id, r) ==
  IF id \in DOMAIN log
  THEN [log EXCEPT ![id] = Append(@, [status |-> table[id].status,
                                      progress |-> table[id].progress, by |-> r])]
  ELSE Append(log, <<[status |-> table[id].status,
                      progress |-> table[id].progress, by |-> r]>>)

\* storage.listAssets(): orderBy(desc(createdAt)), as the ids of the rows
listAssets(table) == [k \in 1..Len(table) |-> Len(table) + 1 - k]

\* the .slice(0, 12) of buildReferenceContext
ReferenceCap == 12

\* mutant: the assets of every project are candidates
buildReferenceContextAnyProject(table, projectName, referenceAssetIds) ==
  LET allAssets == listAssets(table)
  IN  IF referenceAssetIds # {}
      THEN SelectSeq(allAssets, LAMBDA id : id \in referenceAssetIds)
      ELSE Slice(SelectSeq(allAssets, LAMBDA id :
                   table[id].assetCategory \in {"character", "environment", "nature"}),
                 0, ReferenceCap)

\* buildReferenceContext: the ids of the assets listed in the context block,
\* in the order of the block (<<>> for the empty block)
buildReferenceContext(table, projectName, referenceAssetIds) ==
  LET allAssets == listAssets(table)
      ofProject == SelectSeq(allAssets, LAMBDA id : table[id].projectName = projectName)
  IN  IF referenceAssetIds # {}
      THEN SelectSeq(ofProject, LAMBDA id : id \in referenceAssetIds)
      ELSE Slice(SelectSeq(ofProject, LAMBDA id :
                   table[id].assetCategory \in {"character", "environment", "nature"}),
                 0, ReferenceCap)

\* storage.getLatestRenditionByAsset: the newest rendition of the asset, 0 for none
getLatestRenditionByAsset(table, assetId) ==
  LET ids == SelectSeq([k \in 1..Len(table) |-> k], LAMBDA k : table[k].assetId = assetId)
  IN  IF ids = <<>> THEN 0 ELSE ids[Len(ids)]

(***************************************************************************)
(* Pipeline runs.  run[r] is the request-handling task of request r: its   *)
(* position (pc), its parsed input, its locals, the number of generation    *)
(* calls it has issued and has in flight, the provider's answer to its     *)
(* last call, the storyboard prompts it has sent, the job row createJob    *)
(* returned to it (job), its HTTP response and the job of the 201 body.    *)
(***************************************************************************)
NoResponse == [status |-> 0, message |-> ""]

\* no job row: the job local of a handler before createJob has returned
NoJob == [status |-> "", progress |-> 0, error |-> "", completed |-> FALSE]

IdleRun ==
  [pc |-> "idle", flow |-> "none", input |-> NoInput, jobId |-> 0,
   referenceContext |-> <<>>, scenes |-> <<>>, plan |-> <<>>, i |-> 0,
   b64 |-> "", assetId |-> 0, inFlight |-> 0, calls |-> 0, response |-> "",
   prompts |-> <<>>, resp |-> NoResponse, job |-> NoJob, body |-> [job |-> NoJob]]

Respond(code, message) == [status |-> code, message |-> message]

\* the generation calls a request will make when every call succeeds
PlannedCalls(flow, input) ==
  IF flow = "image" THEN (IF ValidImageInput(input) THEN 1 ELSE 0)
  ELSE IF flow = "pack"
    THEN (IF ValidProjectPackInput(input) THEN Len(ProjectAssetPlan(input)) ELSE 0)
  ELSE IF flow = "storyboard"
    THEN (IF ValidStoryboardInput(input)
          THEN Len(normalizeScriptScenes(input.script, input.sceneCount)) ELSE 0)
  ELSE 0

RECURSIVE PlannedTotal(_)
PlannedTotal(requests) ==
  IF requests = <<>> THEN 0
  ELSE PlannedCalls(Head(requests).flow, Head(requests).input)
         + PlannedTotal(Tail(requests))

Runs == DOMAIN run

\* mutant: a failed generation call is issued once more before giving up
CaughtRetryOnce(rec, isZod) ==
  IF isZod THEN [rec EXCEPT !.pc = "done", !.resp = Respond(400, "validation")]
  ELSE IF rec.calls <= Max(rec.i, 1) THEN [rec EXCEPT !.calls = @ + 1]
  ELSE [rec EXCEPT !.pc = "done", !.inFlight = 0, !.resp = Respond(500, "Internal error")]

\* the catch block of the three handlers: a ZodError is a 400, the rest a 500
Caught(rec, isZod) ==
  [rec EXCEPT !.pc = "done", !.inFlight = 0,
              !.resp = IF isZod THEN Respond(400, "validation")
                       ELSE Respond(500, "Internal error")]

\* a step of a generation request leaves the client's environment and the
\* project registry alone
StepRun(r, rec) ==
  /\ run' = [run EXCEPT ![r] = rec]
  /\ UNCHANGED <<clientVars, registryVars>>

\* Backend A is configured, the project registry is empty and unused
NoRegistry ==
  /\ env = OpenAIEnv
  /\ clientCalls = <<>>
  /\ projects = <<>>
  /\ projectAssets = <<>>
  /\ compiledScenes = <<>>
  /\ sceneFrames = <<>>
  /\ task = <<>>
  /\ clock = 0

\* the ledger is empty and every request is about to be handled
InitWith(requests) ==
  /\ jobs = <<>>
  /\ assets = <<>>
  /\ renditions = <<>>
  /\ jobLog = <<>>
  /\ run = [r \in DOMAIN requests |->
             [IdleRun EXCEPT !.flow = requests[r].flow, !.input = requests[r].input]]
  /\ NoRegistry

\* the category of the k-th asset of a project pack of 6 + 6 + 6 assets
PackCategory(k) ==
  IF k <= MaxCategoryCount THEN "character"
  ELSE IF k <= 2 * MaxCategoryCount THEN "environment" ELSE "nature"

\* the number of assets an earlier project pack has left: one above the cap
PackAssetCount == ReferenceCap + 1

\* the assets two earlier single-image requests have left: a character of
\* project "Q" and an image without a project
OtherProjectAssetId == PackAssetCount + 1

NoProjectAssetId == PackAssetCount + 2

\* the ledger after an earlier project-pack request of project "P" has
\* succeeded with PackAssetCount assets, followed by the two single-image
\* requests (writer 0 stands for the earlier requests), and the requests are
\* about to be handled
InitAfterPack(requests) ==
  /\ jobs = [j \in 1..3 |->
               [status |-> "succeeded", progress |-> 100, error |-> "", completed |-> TRUE]]
  /\ jobLog = [j \in 1..3 |->
                 <<[status |-> "queued", progress |-> 0, by |-> 0],
                   [status |-> "running", progress |-> 10, by |-> 0],
                   [status |-> "succeeded", progress |-> 100, by |-> 0]>>]
  /\ assets = [k \in 1..NoProjectAssetId |->
                 IF k <= PackAssetCount
                 THEN [jobId |-> 1, prompt |-> <<"ref">>, mode |-> "project-pack",
                       projectName |-> "P", assetCategory |-> PackCategory(k),
                       sceneIndex |-> 0]
                 ELSE IF k = OtherProjectAssetId
                 THEN [jobId |-> 2, prompt |-> <<"a hero">>, mode |-> "image",
                       projectName |-> "Q", assetCategory |-> "character",
                       sceneIndex |-> 0]
                 ELSE [jobId |-> 3, prompt |-> <<"a red cube">>, mode |-> "image",
                       projectName |-> "", assetCategory |-> "general",
                       sceneIndex |-> 0]]
  /\ renditions = [k \in 1..NoProjectAssetId |->
                     [assetId |-> k, mimeType |-> "image/png", width |-> 1024,
                      height |-> 1024, dataBase64 |-> "base64-png"]]
  /\ run = [r \in DOMAIN requests |->
             [IdleRun EXCEPT !.flow = requests[r].flow, !.input = requests[r].input]]
  /\ NoRegistry

\* the requests handled concurrently
ConcurrentRequests ==
  ImageRequests({"", "a red cube"}, {""})
  \cup TaggedImageRequests({"a hero"}, {"P"}, {"character"})
  \cup ProjectPackRequests({ScriptPlain}, {MinCategoryCount}, {""})
  \cup StoryboardRequests({ScriptOnePara}, MinSceneCount..MaxScenes, {""})

\* the requests handled one at a time
SingleRequests ==
  ImageRequests({"", "a red cube"}, {"", "2048x2048"} \cup SupportedSizes)
  \cup ProjectPackRequests(Scripts, 0..MaxCount, {"", "256x256"})
  \cup StoryboardRequests(Scripts, (MinSceneCount - 1)..(MaxSceneCount + 1), {"", "256x256"})
  \cup TaggedImageRequests({"a hero"}, {"P", LongProjectName}, {"nature", "villain"})
  \cup ProjectPackRequests({ScriptOnePara}, {MaxCategoryCount + 1}, {"", "2048x2048"})
  \cup StoryboardRequests({ScriptOnePara}, {MinSceneCount}, {"2048x2048"})
  \cup WithProjectName(ProjectPackRequests({ScriptOnePara}, {MinCategoryCount}, {""})
                         \cup StoryboardRequests({ScriptOnePara}, {MinSceneCount}, {""}),
                       {"", LongProjectName})

\* the storyboard requests handled on the ledger an earlier project pack left
ReferenceRequests ==
  WithReferenceAssetIds(StoryboardRequests({ScriptOnePara}, {MinSceneCount}, {""}),
    {{}, 1..PackAssetCount, {2, OtherProjectAssetId}, {0, 1},
     {OtherProjectAssetId, NoProjectAssetId}, {1, NoProjectAssetId + 1},
     1..(MaxReferenceAssetIds + 1)})

\* either MaxRuns small requests handled concurrently, or one request of any
\* size, or one storyboard request on the ledger of an earlier project pack
Init ==
  \/ \E requests \in [1..MaxRuns -> ConcurrentRequests] :
       /\ PlannedTotal(requests) <= MaxCalls
       /\ InitWith(requests)
  \/ \E request \in SingleRequests : InitWith(<<request>>)
  \/ \E request \in ReferenceRequests : InitAfterPack(<<request>>)

(***************************************************************************)
(* POST /api/generate/image                                                *)
(***************************************************************************)
\* parse the body, then createJob
ImagePost(r) ==
  LET input == run[r].input IN
    /\ run[r].pc = "idle"
    /\ run[r].flow = "image"
    /\ IF ValidImageInput(input)
       THEN /\ jobs' = createJob(jobs)
            /\ jobLog' = LogWrite(jobLog, jobs', Len(jobs'), r)
            /\ StepRun(r, [run[r] EXCEPT !.pc = "img_running", !.jobId = Len(jobs'),
                                         !.job = jobs'[Len(jobs')]])
       ELSE /\ StepRun(r, Caught(run[r], TRUE))
            /\ UNCHANGED <<jobs, jobLog>>
    /\ UNCHANGED <<assets, renditions>>

\* updateJob(running, 10), then the generation call is issued
ImageRunning(r) ==
  /\ run[r].pc = "img_running"
  /\ jobs' = updateJob(jobs, run[r].jobId, [status |-> "running", progress |-> 10])
  /\ jobLog' = LogWrite(jobLog, jobs', run[r].jobId, r)
  /\ StepRun(r, [run[r] EXCEPT !.pc = "img_generate", !.inFlight = @ + 1, !.calls = @ + 1])
  /\ UNCHANGED <<assets, renditions>>

\* the generation call settles; a missing payload marks the job failed
ImageGenerated(r) ==
  /\ run[r].pc = "img_generate"
  /\ \E response \in ProviderResponses :
       LET result == generateImageBase64(response)
       IN  IF result.threw
           THEN /\ StepRun(r, Caught([run[r] EXCEPT !.response = response], FALSE))
                /\ UNCHANGED <<jobs, jobLog>>
           ELSE IF result.b64 = ""
           THEN /\ jobs' = updateJob(jobs, run[r].jobId,
                             [status |-> "failed", progress |-> 100,
                              error |-> "No image data returned", completed |-> TRUE])
                /\ jobLog' = LogWrite(jobLog, jobs', run[r].jobId, r)
                /\ StepRun(r, [run[r] EXCEPT !.pc = "done", !.inFlight = 0,
                                 !.response = response,
                                 !.resp = Respond(500, "No image data returned")])
           ELSE /\ StepRun(r, [run[r] EXCEPT !.pc = "img_createAsset", !.inFlight = 0,
                                             !.response = response, !.b64 = result.b64])
                /\ UNCHANGED <<jobs, jobLog>>
  /\ UNCHANGED <<assets, renditions>>

ImageCreateAsset(r) ==
  /\ run[r].pc = "img_createAsset"
  /\ assets' = createAsset(assets,
       [jobId |-> run[r].jobId, prompt |-> <<run[r].input.prompt>>, mode |-> "image",
        projectName |-> run[r].input.projectName,
        assetCategory |-> IF run[r].input.assetCategory = "" THEN "general"
                          ELSE run[r].input.assetCategory,
        sceneIndex |-> 0])
  /\ StepRun(r, [run[r] EXCEPT !.pc = "img_createRendition", !.assetId = Len(assets')])
  /\ UNCHANGED <<jobs, jobLog, renditions>>

ImageCreateRendition(r) ==
  /\ run[r].pc = "img_createRendition"
  /\ LET dims == sizeToDims(SizeOrDefault(run[r].input.size))
     IN  renditions' = createRendition(renditions,
           [assetId |-> run[r].assetId, mimeType |-> "image/png",
            width |-> dims.width, height |-> dims.height, dataBase64 |-> run[r].b64])
  /\ StepRun(r, [run[r] EXCEPT !.pc = "img_succeeded"])
  /\ UNCHANGED <<jobs, jobLog, assets>>

\* updateJob(succeeded, 100), then the 201 response
ImageSucceeded(r) ==
  /\ run[r].pc = "img_succeeded"
  /\ jobs' = updateJob(jobs, run[r].jobId,
               [status |-> "succeeded", progress |-> 100, completed |-> TRUE])
  /\ jobLog' = LogWrite(jobLog, jobs', run[r].jobId, r)
  /\ StepRun(r, [run[r] EXCEPT !.pc = "done", !.resp = Respond(201, ""),
                               !.body = [job |-> run[r].job]])
  /\ UNCHANGED <<assets, renditions>>

(***************************************************************************)
(* POST /api/generate/project-pack                                         *)
(***************************************************************************)
\* parse the body, then createJob
PackPost(r) ==
  LET input == run[r].input IN
    /\ run[r].pc = "idle"
    /\ run[r].flow = "pack"
    /\ IF ValidProjectPackInput(input)
       THEN /\ jobs' = createJob(jobs)
            /\ jobLog' = LogWrite(jobLog, jobs', Len(jobs'), r)
            /\ StepRun(r, [run[r] EXCEPT !.pc = "pack_running", !.jobId = Len(jobs'),
                                         !.job = jobs'[Len(jobs')]])
       ELSE /\ StepRun(r, Caught(run[r], TRUE))
            /\ UNCHANGED <<jobs, jobLog>>
    /\ UNCHANGED <<assets, renditions>>

\* updateJob(running, 10), then generateProjectAssetSet extracts the
\* descriptors and issues the first generation call
PackRunning(r) ==
  /\ run[r].pc = "pack_running"
  /\ jobs' = updateJob(jobs, run[r].jobId, [status |-> "running", progress |-> 10])
  /\ jobLog' = LogWrite(jobLog, jobs', run[r].jobId, r)
  /\ StepRun(r, [run[r] EXCEPT !.pc = "pack_generate", !.plan = ProjectAssetPlan(run[r].input),
                               !.i = 1, !.inFlight = @ + 1, !.calls = @ + 1])
  /\ UNCHANGED <<assets, renditions>>

\* the generation call of descriptor i settles
PackGenerated(r) ==
  /\ run[r].pc = "pack_generate"
  /\ \E response \in ProviderResponses :
       LET result == generateImageBase64(response)
       IN  IF result.threw
           THEN StepRun(r, Caught([run[r] EXCEPT !.response = response], FALSE))
           ELSE StepRun(r, [run[r] EXCEPT !.pc = "pack_createAsset", !.inFlight = 0,
                                          !.response = response, !.b64 = result.b64])
  /\ UNCHANGED <<jobs, jobLog, assets, renditions>>

PackCreateAsset(r) ==
  /\ run[r].pc = "pack_createAsset"
  /\ assets' = createAsset(assets,
       [jobId |-> run[r].jobId, prompt |-> <<run[r].plan[run[r].i].descriptor>>,
        mode |-> "project-pack", projectName |-> run[r].input.projectName,
        assetCategory |-> run[r].plan[run[r].i].category, sceneIndex |-> 0])
  /\ StepRun(r, [run[r] EXCEPT !.pc = "pack_createRendition", !.assetId = Len(assets')])
  /\ UNCHANGED <<jobs, jobLog, renditions>>

\* createRendition, then the next descriptor's call or the end of the set
PackCreateRendition(r) ==
  /\ run[r].pc = "pack_createRendition"
  /\ LET dims == sizeToDims(SizeOrDefault(run[r].input.size))
     IN  renditions' = createRendition(renditions,
           [assetId |-> run[r].assetId, mimeType |-> "image/png",
            width |-> dims.width, height |-> dims.height, dataBase64 |-> run[r].b64])
  /\ IF run[r].i < Len(run[r].plan)
     THEN StepRun(r, [run[r] EXCEPT !.pc = "pack_generate", !.i = @ + 1,
                                    !.inFlight = @ + 1, !.calls = @ + 1])
     ELSE StepRun(r, [run[r] EXCEPT !.pc = "pack_succeeded"])
  /\ UNCHANGED <<jobs, jobLog, assets>>

\* updateJob(succeeded, 100), then the 201 response
PackSucceeded(r) ==
  /\ run[r].pc = "pack_succeeded"
  /\ jobs' = updateJob(jobs, run[r].jobId,
               [status |-> "succeeded", progress |-> 100, completed |-> TRUE])
  /\ jobLog' = LogWrite(jobLog, jobs', run[r].jobId, r)
  /\ StepRun(r, [run[r] EXCEPT !.pc = "done", !.resp = Respond(201, ""),
                               !.body = [job |-> run[r].job]])
  /\ UNCHANGED <<assets, renditions>>

(***************************************************************************)
(* POST /api/generate/storyboard                                           *)
(***************************************************************************)
\* parse the body, buildReferenceContext (listAssets), normalizeScriptScenes
StoryboardPost(r) ==
  LET input == run[r].input IN
    /\ run[r].pc = "idle"
    /\ run[r].flow = "storyboard"
    /\ IF ValidStoryboardInput(input)
       THEN StepRun(r, [run[r] EXCEPT
              !.pc = "sb_createJob",
              !.referenceContext = buildReferenceContext(assets, input.projectName,
                                                         input.referenceAssetIds),
              !.scenes = normalizeScriptScenes(input.script, input.sceneCount)])
       ELSE StepRun(r, Caught(run[r], TRUE))
    /\ UNCHANGED <<jobs, jobLog, assets, renditions>>

\* mutant: the handler takes the first row of the table for its job
StoryboardCreateJobFirstRow(r) ==
  /\ run[r].pc = "sb_createJob"
  /\ jobs' = createJob(jobs)
  /\ jobLog' = LogWrite(jobLog, jobs', Len(jobs'), r)
  /\ StepRun(r, [run[r] EXCEPT !.pc = "sb_running", !.jobId = 1, !.job = jobs'[1]])
  /\ UNCHANGED <<assets, renditions>>

StoryboardCreateJob(r) ==
  /\ run[r].pc = "sb_createJob"
  /\ jobs' = createJob(jobs)
  /\ jobLog' = LogWrite(jobLog, jobs', Len(jobs'), r)
  /\ StepRun(r, [run[r] EXCEPT !.pc = "sb_running", !.jobId = Len(jobs'),
                               !.job = jobs'[Len(jobs')]])
  /\ UNCHANGED <<assets, renditions>>

\* mutant: the calls of all scenes are issued at once
StoryboardRunningAllAtOnce(r) ==
  /\ run[r].pc = "sb_running"
  /\ jobs' = updateJob(jobs, run[r].jobId, [status |-> "running", progress |-> 5])
  /\ jobLog' = LogWrite(jobLog, jobs', run[r].jobId, r)
  /\ IF run[r].scenes # <<>>
     THEN StepRun(r, [run[r] EXCEPT !.pc = "sb_generate", !.i = 1,
                                    !.inFlight = Len(run[r].scenes),
                                    !.calls = Len(run[r].scenes)])
     ELSE StepRun(r, [run[r] EXCEPT !.pc = "sb_succeeded"])
  /\ UNCHANGED <<assets, renditions>>

\* the context object of the storyboard handler
StoryboardContext(rec) ==
  [projectName |-> rec.input.projectName, referenceContext |-> rec.referenceContext]

\* mutant: the reference context is listed again for every prompt
buildStoryboardPromptRelisted(scene, context) ==
  [project |-> context.projectName, index |-> scene.index, summary |-> scene.summary,
   composition |-> scene.composition,
   referenceContext |-> buildReferenceContext(assets, context.projectName, {})]

\* the lines of the prompt that depend on the scene and on the context
buildStoryboardPrompt(scene, context) ==
  [project |-> context.projectName, index |-> scene.index, summary |-> scene.summary,
   composition |-> scene.composition, referenceContext |-> context.referenceContext]

\* updateJob(running, 5), then the scene loop issues the call of scene 1
StoryboardRunning(r) ==
  /\ run[r].pc = "sb_running"
  /\ jobs' = updateJob(jobs, run[r].jobId, [status |-> "running", progress |-> 5])
  /\ jobLog' = LogWrite(jobLog, jobs', run[r].jobId, r)
  /\ IF run[r].scenes # <<>>
     THEN StepRun(r, [run[r] EXCEPT !.pc = "sb_generate", !.i = 1,
                                    !.inFlight = @ + 1, !.calls = @ + 1,
                                    !.prompts = Append(@, buildStoryboardPrompt(
                                        run[r].scenes[1], StoryboardContext(run[r])))])
     ELSE StepRun(r, [run[r] EXCEPT !.pc = "sb_succeeded"])
  /\ UNCHANGED <<assets, renditions>>

\* the generation call of scene i settles; an empty payload is thrown
StoryboardGenerated(r) ==
  /\ run[r].pc = "sb_generate"
  /\ \E response \in ProviderResponses :
       LET result == generateImageBase64(response)
       IN  IF result.threw \/ result.b64 = ""
           THEN StepRun(r, Caught([run[r] EXCEPT !.response = response], FALSE))
           ELSE StepRun(r, [run[r] EXCEPT !.pc = "sb_createAsset", !.inFlight = 0,
                                          !.response = response, !.b64 = result.b64])
  /\ UNCHANGED <<jobs, jobLog, assets, renditions>>

StoryboardCreateAsset(r) ==
  /\ run[r].pc = "sb_createAsset"
  /\ assets' = createAsset(assets,
       [jobId |-> run[r].jobId, prompt |-> run[r].scenes[run[r].i].summary,
        mode |-> "storyboard", projectName |-> run[r].input.projectName,
        assetCategory |-> "", sceneIndex |-> run[r].scenes[run[r].i].index])
  /\ StepRun(r, [run[r] EXCEPT !.pc = "sb_createRendition", !.assetId = Len(assets')])
  /\ UNCHANGED <<jobs, jobLog, renditions>>

StoryboardCreateRendition(r) ==
  /\ run[r].pc = "sb_createRendition"
  /\ LET dims == sizeToDims(SizeOrDefault(run[r].input.size))
     IN  renditions' = createRendition(renditions,
           [assetId |-> run[r].assetId, mimeType |-> "image/png",
            width |-> dims.width, height |-> dims.height, dataBase64 |-> run[r].b64])
  /\ StepRun(r, [run[r] EXCEPT !.pc = "sb_progress"])
  /\ UNCHANGED <<jobs, jobLog, assets>>

\* mutant: the loop index is used without the + 1
SceneProgressZeroBased(i, n) == RoundPercent(i - 1, n)

\* Math.round(((i + 1) / storyboardScenes.length) * 100), i counted from 0
SceneProgress(i, n) == RoundPercent(i, n)

\* updateJob(progress), then the next scene's call or the end of the loop
StoryboardProgress(r) ==
  /\ run[r].pc = "sb_progress"
  /\ jobs' = updateJob(jobs, run[r].jobId,
               [progress |-> SceneProgress(run[r].i, Len(run[r].scenes))])
  /\ jobLog' = LogWrite(jobLog, jobs', run[r].jobId, r)
  /\ IF run[r].i < Len(run[r].scenes)
     THEN StepRun(r, [run[r] EXCEPT !.pc = "sb_generate", !.i = @ + 1,
                                    !.inFlight = @ + 1, !.calls = @ + 1,
                                    !.prompts = Append(@, buildStoryboardPrompt(
                                        run[r].scenes[run[r].i + 1],
                                        StoryboardContext(run[r])))])
     ELSE StepRun(r, [run[r] EXCEPT !.pc = "sb_succeeded"])
  /\ UNCHANGED <<assets, renditions>>

\* updateJob(succeeded, 100), then the 201 response
StoryboardSucceeded(r) ==
  /\ run[r].pc = "sb_succeeded"
  /\ jobs' = updateJob(jobs, run[r].jobId,
               [status |-> "succeeded", progress |-> 100, completed |-> TRUE])
  /\ jobLog' = LogWrite(jobLog, jobs', run[r].jobId, r)
  /\ StepRun(r, [run[r] EXCEPT !.pc = "done", !.resp = Respond(201, ""),
                               !.body = [job |-> run[r].job]])
  /\ UNCHANGED <<assets, renditions>>

Next ==
  \/ \E r \in Runs : ImagePost(r)
  \/ \E r \in Runs : ImageRunning(r)
  \/ \E r \in Runs : ImageGenerated(r)
  \/ \E r \in Runs : ImageCreateAsset(r)
  \/ \E r \in Runs : ImageCreateRendition(r)
  \/ \E r \in Runs : ImageSucceeded(r)
  \/ \E r \in Runs : PackPost(r)
  \/ \E r \in Runs : PackRunning(r)
  \/ \E r \in Runs : PackGenerated(r)
  \/ \E r \in Runs : PackCreateAsset(r)
  \/ \E r \in Runs : PackCreateRendition(r)
  \/ \E r \in Runs : PackSucceeded(r)
  \/ \E r \in Runs : StoryboardPost(r)
  \/ \E r \in Runs : StoryboardCreateJob(r)
  \/ \E r \in Runs : StoryboardRunning(r)
  \/ \E r \in Runs : StoryboardGenerated(r)
  \/ \E r \in Runs : StoryboardCreateAsset(r)
  \/ \E r \in Runs : StoryboardCreateRendition(r)
  \/ \E r \in Runs : StoryboardProgress(r)
  \/ \E r \in Runs : StoryboardSucceeded(r)

Spec == Init /\ [][Next]_vars

(***************************************************************************)
(* The generation client on its own (server/image-provider.ts): calls of   *)
(* generateImageBase64 under every configuration of process.env.  A call   *)
(* is recorded with the backend it went to, the authorization-related      *)
(* headers of the request it sent to Backend B, and what it yielded.       *)
(***************************************************************************)
InitClient ==
  /\ env \in Envs
  /\ clientCalls = <<>>
  /\ jobs = <<>> /\ assets = <<>> /\ renditions = <<>> /\ jobLog = <<>>
  /\ run = <<>>
  /\ projects = <<>> /\ projectAssets = <<>> /\ compiledScenes = <<>>
  /\ sceneFrames = <<>> /\ task = <<>> /\ clock = 0

\* generateImageBase64 is called: the backend is chosen; for Backend B the
\* headers are built and the request is sent, unless the credentials are missing
ClientGenerate ==
  /\ Len(clientCalls) < MaxCalls
  /\ \A k \in 1..Len(clientCalls) : clientCalls[k].settled
  /\ LET provider == getImageProvider(env)
         call == generateWithBedrock(env, "image")
     IN  clientCalls' = Append(clientCalls,
           IF provider = "bedrock"
           THEN [provider |-> provider, sent |-> call.sent, headers |-> call.headers,
                 settled |-> ~call.sent, result |-> Threw]
           ELSE [provider |-> provider, sent |-> TRUE, headers |-> NoHeaders,
                 settled |-> FALSE, result |-> Threw])
  /\ UNCHANGED <<env, ledgerVars, run, registryVars>>

\* the backend answers the request of the last call
ClientSettled ==
  /\ clientCalls # <<>>
  /\ ~clientCalls[Len(clientCalls)].settled
  /\ \E response \in ProviderResponses :
       clientCalls' = [clientCalls EXCEPT ![Len(clientCalls)] =
                         [@ EXCEPT !.settled = TRUE,
                                   !.result = generateImageBase64(response)]]
  /\ UNCHANGED <<env, ledgerVars, run, registryVars>>

NextClient ==
  \/ ClientGenerate
  \/ ClientSettled

SpecClient == InitClient /\ [][NextClient]_vars

(***************************************************************************)
(* Project registry (handlers in server/image-provider.ts, rows in         *)
(* server/storage.ts over shared/schema.ts).  The tables are kept in       *)
(* insertion order; a row is found by its primary key.                     *)
(***************************************************************************)
\* number of registry requests handled concurrently
MaxTasks == 2
\* the latest reading of Date.now() (in milliseconds after the first one)
MaxStamp == 2

\* the position of the row with the given primary key, 0 for none
Find(table, id) ==
  IF \E k \in DOMAIN table : table[k].id = id
  THEN CHOOSE k \in DOMAIN table : table[k].id = id
  ELSE 0

\* the insert of a row whose primary key is taken is rejected by the database
PrimaryKeyTaken(table, id) == Find(table, id) # 0

\* storage.getProject
getProject(table, id) == Find(table, id)

\* storage.createProject
createProject(table, row) == Append(table, row)

\* storage.createProjectAsset
createProjectAsset(table, row) == Append(table, row)

\* storage.listProjectAssets: orderBy(desc(createdAt)), as the rows
listProjectAssets(table, projectId) ==
  LET newestFirst == [k \in 1..Len(table) |-> table[Len(table) + 1 - k]]
  IN  SelectSeq(newestFirst, LAMBDA row : row.projectId = projectId)

\* the row lockProjectAsset addresses: both the project and the id must match
LockTarget(table, projectId, assetId) ==
  IF \E k \in DOMAIN table : table[k].projectId = projectId /\ table[k].id = assetId
  THEN CHOOSE k \in DOMAIN table : table[k].projectId = projectId /\ table[k].id = assetId
  ELSE 0

\* mutant: the update matches the asset id in any project
lockProjectAssetAnyProject(table, projectId, assetId) ==
  [k \in DOMAIN table |->
     IF table[k].id = assetId THEN [table[k] EXCEPT !.lockState = "locked"] ELSE table[k]]

\* storage.lockProjectAsset: UPDATE ... SET lockState = 'locked' WHERE projectId AND id
lockProjectAsset(table, projectId, assetId) ==
  [k \in DOMAIN table |->
     IF table[k].projectId = projectId /\ table[k].id = assetId
     THEN [table[k] EXCEPT !.lockState = "locked"]
     ELSE table[k]]

\* storage.createCompiledScene
createCompiledScene(table, row) == Append(table, row)

\* storage.getCompiledScene: the position of the scene of the project, 0 for none
getCompiledScene(table, projectId, sceneId) ==
  IF \E k \in DOMAIN table : table[k].projectId = projectId /\ table[k].id = sceneId
  THEN CHOOSE k \in DOMAIN table : table[k].projectId = projectId /\ table[k].id = sceneId
  ELSE 0

\* storage.createSceneFrame
createSceneFrame(table, row) == Append(table, row)

\* `${TYPE.slice(0, 4)}_${slugify(name)}_${Date.now().toString(36)}`
TypePrefix(type) ==
  IF type = "character" THEN "CHAR"
  ELSE IF type = "environment" THEN "ENVI"
  ELSE IF type = "nature" THEN "NATU"
  ELSE "PROP"

\* slugify: lower case, runs of other characters become "_", trimmed of "_"
slugify(name) ==
  IF name \in {"Aiko", "Aiko!", "aiko"} THEN "aiko"
  ELSE IF name = "Old Mill" THEN "old_mill"
  ELSE ""

ProjectAssetId(type, name, stamp) ==
  [prefix |-> TypePrefix(type), slug |-> slugify(name), stamp |-> stamp]

NoAssetId == [prefix |-> "", slug |-> "", stamp |-> 0]

\* `SCN_${projectId}_${String(sceneIndex).padStart(3, "0")}`
SceneId(projectId, sceneIndex) == [projectId |-> projectId, sceneIndex |-> sceneIndex]

NoSceneId == SceneId("", 0)

\* `FRM_${sceneId}_${String(frameIndex).padStart(3, "0")}_${Date.now().toString(36)}`
FrameId(sceneId, frameIndex, stamp) ==
  [sceneId |-> sceneId, frameIndex |-> frameIndex, stamp |-> stamp]

\* mutant: every scene is built from the first chunk and has index 1
buildSceneGraphFirstOnly(script, sceneCount) ==
  LET lines == SelectSeq(AllLines(script), LAMBDA l : l.len > 20)
      chunks == IF lines # <<>> THEN [k \in 1..Len(lines) |-> <<lines[k].text>>]
                ELSE <<TextsOf(AllLines(script))>>
  IN  [k \in 1..sceneCount |->
         [sceneIndex |-> 1, summary |-> chunks[1], camera |-> "wide shot"]]

\* buildSceneGraph: sceneCount scenes, each summarised by one line longer than
\* 20 characters (by the whole script if there is none), taken in rotation
buildSceneGraph(script, sceneCount) ==
  LET lines == SelectSeq(AllLines(script), LAMBDA l : l.len > 20)
      chunks == IF lines # <<>> THEN [k \in 1..Len(lines) |-> <<lines[k].text>>]
                ELSE <<TextsOf(AllLines(script))>>
  IN  [k \in 1..sceneCount |->
         [sceneIndex |-> k,
          summary |-> chunks[((k - 1) % Len(chunks)) + 1],
          camera |-> IF (k - 1) % 2 = 0 THEN "wide shot" ELSE "medium shot"]]

(***************************************************************************)
(* Registry requests and their validation (shared/routes.ts).              *)
(***************************************************************************)
MinProjectIdLength == 3
MaxProjectIdLength == 80
MinCompileSceneCount == 1
MaxCompileSceneCount == 12
MinFrameIndex == 1

RegistryAssetTypes == {"character", "environment", "nature", "prop"}

\* id.length of the project ids used
ProjectIdLength(id) == IF id = "" THEN 0 ELSE IF id = "ab" THEN 2 ELSE 5

NoRegistryInput ==
  [projectId |-> "", name |-> "", visualStyle |-> "", type |-> "", assetName |-> "",
   description |-> "", assetId |-> NoAssetId, script |-> ScriptBlank, sceneCount |-> 0,
   sceneId |-> NoSceneId, frameIndex |-> 0, size |-> ""]

ValidCreateProjectInput(input) ==
  /\ ProjectIdLength(input.projectId) >= MinProjectIdLength
  /\ ProjectIdLength(input.projectId) <= MaxProjectIdLength
  /\ ValidProjectName(input.name)
  /\ input.visualStyle # ""

ValidCreateAssetInput(input) ==
  /\ input.type \in RegistryAssetTypes
  /\ input.assetName # ""
  /\ input.description # ""

ValidCompileInput(input) ==
  /\ ScriptLength(input.script) >= MinScriptLength
  /\ input.sceneCount >= MinCompileSceneCount
  /\ input.sceneCount <= MaxCompileSceneCount

ValidRenderInput(input) ==
  /\ input.frameIndex >= MinFrameIndex
  /\ ValidSize(input.size)

Seeding == Request("seed", NoRegistryInput)

CreateProjectRequests(ids, names) ==
  {Request("projects.create",
           [NoRegistryInput EXCEPT !.projectId = id, !.name = n, !.visualStyle = "ink"]) :
     id \in ids, n \in names}

CreateAssetRequests(ids, types, names) ==
  {Request("assets.create",
           [NoRegistryInput EXCEPT !.projectId = id, !.type = ty, !.assetName = n,
                                   !.description = "a description"]) :
     id \in ids, ty \in types, n \in names}

LockRequests(ids, assetIds) ==
  {Request("assets.lock", [NoRegistryInput EXCEPT !.projectId = id, !.assetId = a]) :
     id \in ids, a \in assetIds}

CompileRequests(ids, scripts, counts) ==
  {Request("scenes.compile",
           [NoRegistryInput EXCEPT !.projectId = id, !.script = s, !.sceneCount = n]) :
     id \in ids, s \in scripts, n \in counts}

RenderRequests(ids, sceneIds, frameIndexes, sizes) ==
  {Request("scenes.render",
           [NoRegistryInput EXCEPT !.projectId = id, !.sceneId = sc, !.frameIndex = f,
                                   !.size = z]) :
     id \in ids, sc \in sceneIds, f \in frameIndexes, z \in sizes}

(***************************************************************************)
(* Registry tasks.  task[t] is the startup seeding or the handling of one  *)
(* registry request: its position (pc), its input, the rows it has found   *)
(* (project, scene: positions, 0 for none), the locked assets it has       *)
(* listed, the scene graphs it compiles, the ids it has built, the image   *)
(* payload, the job and asset it created and its HTTP response.            *)
(***************************************************************************)
IdleTask ==
  [pc |-> "idle", op |-> "none", input |-> NoRegistryInput, project |-> 0, scene |-> 0,
   lockedRefs |-> <<>>, graphs |-> <<>>, newId |-> NoAssetId, stamp |-> 0, i |-> 0,
   b64 |-> "", called |-> FALSE, jobId |-> 0, assetId |-> 0, resp |-> NoResponse]

Tasks == DOMAIN task

\* the writer recorded for a job written by task t
TaskWriter(t) == 0 - t

\* the catch block of the registry handlers
CaughtTask(rec, isZod) ==
  [rec EXCEPT !.pc = "done",
              !.resp = IF isZod THEN Respond(400, "validation")
                       ELSE Respond(500, "Internal error")]

\* a step of a registry task leaves the generation requests and the client alone
StepTask(t, rec) ==
  /\ task' = [task EXCEPT ![t] = rec]
  /\ UNCHANGED <<run, clientVars>>

\* Date.now(): a reading not before the latest one
Now(stamp) == stamp \in clock..MaxStamp /\ clock' = stamp

(***************************************************************************)
(* seedDatabase, started and not awaited by registerRoutes                 *)
(***************************************************************************)
\* listAssets resolves: nothing is seeded when the ledger has an asset
SeedDatabase(t) ==
  /\ task[t].pc = "idle" /\ task[t].op = "seed"
  /\ StepTask(t, [task[t] EXCEPT !.pc = IF Len(listAssets(assets)) > 0 THEN "done"
                                        ELSE "seed_createJob"])
  /\ UNCHANGED <<ledgerVars, projects, projectAssets, compiledScenes, sceneFrames, clock>>

SeedCreateJob(t) ==
  /\ task[t].pc = "seed_createJob"
  /\ jobs' = createJob(jobs)
  /\ jobLog' = LogWrite(jobLog, jobs', Len(jobs'), TaskWriter(t))
  /\ StepTask(t, [task[t] EXCEPT !.pc = "seed_createAsset", !.jobId = Len(jobs')])
  /\ UNCHANGED <<assets, renditions, projects, projectAssets, compiledScenes,
                 sceneFrames, clock>>

SeedCreateAsset(t) ==
  /\ task[t].pc = "seed_createAsset"
  /\ assets' = createAsset(assets,
       [jobId |-> task[t].jobId, prompt |-> <<"desk lamp">>, mode |-> "seeded",
        projectName |-> "", assetCategory |-> "", sceneIndex |-> 0])
  /\ StepTask(t, [task[t] EXCEPT !.pc = "seed_createRendition", !.assetId = Len(assets')])
  /\ UNCHANGED <<jobs, jobLog, renditions, projects, projectAssets, compiledScenes,
                 sceneFrames, clock>>

SeedCreateRendition(t) ==
  /\ task[t].pc = "seed_createRendition"
  /\ renditions' = createRendition(renditions,
       [assetId |-> task[t].assetId, mimeType |-> "image/png", width |-> 1,
        height |-> 1, dataBase64 |-> "transparent-png"])
  /\ StepTask(t, [task[t] EXCEPT !.pc = "done"])
  /\ UNCHANGED <<jobs, jobLog, assets, projects, projectAssets, compiledScenes,
                 sceneFrames, clock>>

(***************************************************************************)
(* POST /api/projects                                                      *)
(***************************************************************************)
\* parse the body; getProject resolves; an existing id is a 400
ProjectsCreate(t) ==
  LET input == task[t].input IN
    /\ task[t].pc = "idle" /\ task[t].op = "projects.create"
    /\ StepTask(t,
         IF ~ValidCreateProjectInput(input) THEN CaughtTask(task[t], TRUE)
         ELSE IF getProject(projects, input.projectId) # 0
         THEN [task[t] EXCEPT !.pc = "done",
                              !.resp = Respond(400, "Project id already exists")]
         ELSE [task[t] EXCEPT !.pc = "projects_insert"])
    /\ UNCHANGED <<ledgerVars, projects, projectAssets, compiledScenes, sceneFrames, clock>>

\* createProject resolves: the insert fails when the id has been taken meanwhile
ProjectsCreateInsert(t) ==
  LET input == task[t].input IN
    /\ task[t].pc = "projects_insert"
    /\ IF PrimaryKeyTaken(projects, input.projectId)
       THEN /\ StepTask(t, CaughtTask(task[t], FALSE))
            /\ UNCHANGED projects
       ELSE /\ projects' = createProject(projects,
                 [id |-> input.projectId, name |-> input.name,
                  visualStyle |-> input.visualStyle, status |-> "active"])
            /\ StepTask(t, [task[t] EXCEPT !.pc = "done", !.resp = Respond(201, "")])
    /\ UNCHANGED <<ledgerVars, projectAssets, compiledScenes, sceneFrames, clock>>

(***************************************************************************)
(* POST /api/projects/:projectId/assets                                    *)
(***************************************************************************)
\* getProject resolves (404 for none); parse the body; build the id
ProjectAssetsCreate(t) ==
  LET input == task[t].input IN
    /\ task[t].pc = "idle" /\ task[t].op = "assets.create"
    /\ IF getProject(projects, input.projectId) = 0
       THEN /\ StepTask(t, [task[t] EXCEPT !.pc = "done",
                                           !.resp = Respond(404, "Project not found")])
            /\ UNCHANGED clock
       ELSE IF ~ValidCreateAssetInput(input)
       THEN /\ StepTask(t, CaughtTask(task[t], TRUE))
            /\ UNCHANGED clock
       ELSE \E stamp \in 0..MaxStamp :
              /\ Now(stamp)
              /\ StepTask(t, [task[t] EXCEPT
                   !.pc = "assets_insert",
                   !.project = getProject(projects, input.projectId),
                   !.newId = ProjectAssetId(input.type, input.assetName, stamp)])
    /\ UNCHANGED <<ledgerVars, projects, projectAssets, compiledScenes, sceneFrames>>

\* createProjectAsset resolves: version 1, lock state draft
ProjectAssetsCreateInsert(t) ==
  LET input == task[t].input IN
    /\ task[t].pc = "assets_insert"
    /\ IF PrimaryKeyTaken(projectAssets, task[t].newId)
       THEN /\ StepTask(t, CaughtTask(task[t], FALSE))
            /\ UNCHANGED projectAssets
       ELSE /\ projectAssets' = createProjectAsset(projectAssets,
                 [id |-> task[t].newId, projectId |-> input.projectId,
                  type |-> input.type, name |-> input.assetName, version |-> 1,
                  lockState |-> "draft"])
            /\ StepTask(t, [task[t] EXCEPT !.pc = "done", !.resp = Respond(201, "")])
    /\ UNCHANGED <<ledgerVars, projects, compiledScenes, sceneFrames, clock>>

(***************************************************************************)
(* POST /api/projects/:projectId/assets/:assetId/lock                      *)
(***************************************************************************)
\* lockProjectAsset resolves: no row is a 404, else the locked row is returned
ProjectAssetsLock(t) ==
  LET input == task[t].input IN
    /\ task[t].pc = "idle" /\ task[t].op = "assets.lock"
    /\ projectAssets' = lockProjectAsset(projectAssets, input.projectId, input.assetId)
    /\ StepTask(t, [task[t] EXCEPT
         !.pc = "done",
         !.resp = IF LockTarget(projectAssets', input.projectId, input.assetId) = 0
                  THEN Respond(404, "Project asset not found")
                  ELSE Respond(200, "")])
    /\ UNCHANGED <<ledgerVars, projects, compiledScenes, sceneFrames, clock>>

(***************************************************************************)
(* POST /api/projects/:projectId/scenes/compile                            *)
(***************************************************************************)
\* getProject resolves (404 for none); parse the body; build the scene graphs
ScenesCompile(t) ==
  LET input == task[t].input IN
    /\ task[t].pc = "idle" /\ task[t].op = "scenes.compile"
    /\ StepTask(t,
         IF getProject(projects, input.projectId) = 0
         THEN [task[t] EXCEPT !.pc = "done", !.resp = Respond(404, "Project not found")]
         ELSE IF ~ValidCompileInput(input) THEN CaughtTask(task[t], TRUE)
         ELSE [task[t] EXCEPT !.pc = "compile_insert", !.i = 1,
                              !.project = getProject(projects, input.projectId),
                              !.graphs = buildSceneGraph(input.script, input.sceneCount)])
    /\ UNCHANGED <<ledgerVars, projects, projectAssets, compiledScenes, sceneFrames, clock>>

\* createCompiledScene of graph i resolves; after the last one the 201 is sent
ScenesCompileInsert(t) ==
  LET input == task[t].input
      graph == task[t].graphs[task[t].i]
      sceneId == SceneId(input.projectId, graph.sceneIndex)
  IN  /\ task[t].pc = "compile_insert"
      /\ IF PrimaryKeyTaken(compiledScenes, sceneId)
         THEN /\ StepTask(t, CaughtTask(task[t], FALSE))
              /\ UNCHANGED compiledScenes
         ELSE /\ compiledScenes' = createCompiledScene(compiledScenes,
                   [id |-> sceneId, projectId |-> input.projectId,
                    sceneIndex |-> graph.sceneIndex, status |-> "compiled",
                    graph |-> graph])
              /\ StepTask(t,
                   IF task[t].i = Len(task[t].graphs)
                   THEN [task[t] EXCEPT !.pc = "done", !.resp = Respond(201, "")]
                   ELSE [task[t] EXCEPT !.i = @ + 1])
      /\ UNCHANGED <<ledgerVars, projects, projectAssets, sceneFrames, clock>>

(***************************************************************************)
(* POST /api/projects/:projectId/scenes/:sceneId/render                    *)
(***************************************************************************)
\* getProject resolves: 404 for none
ScenesRender(t) ==
  LET input == task[t].input IN
    /\ task[t].pc = "idle" /\ task[t].op = "scenes.render"
    /\ StepTask(t,
         IF getProject(projects, input.projectId) = 0
         THEN [task[t] EXCEPT !.pc = "done", !.resp = Respond(404, "Project not found")]
         ELSE [task[t] EXCEPT !.pc = "render_getScene",
                              !.project = getProject(projects, input.projectId)])
    /\ UNCHANGED <<ledgerVars, projects, projectAssets, compiledScenes, sceneFrames, clock>>

\* getCompiledScene resolves: 404 for none; then the body is parsed
ScenesRenderGetScene(t) ==
  LET input == task[t].input
      scene == getCompiledScene(compiledScenes, input.projectId, input.sceneId)
  IN  /\ task[t].pc = "render_getScene"
      /\ StepTask(t,
           IF scene = 0
           THEN [task[t] EXCEPT !.pc = "done", !.resp = Respond(404, "Scene not found")]
           ELSE IF ~ValidRenderInput(input) THEN CaughtTask(task[t], TRUE)
           ELSE [task[t] EXCEPT !.pc = "render_listAssets", !.scene = scene])
      /\ UNCHANGED <<ledgerVars, projects, projectAssets, compiledScenes, sceneFrames, clock>>

\* mutant: every asset of the project is a reference, locked or not
LockedRefsAnyState(refs) == refs

\* refs.filter((a) => a.lockState === "locked")
LockedRefs(refs) == SelectSeq(refs, LAMBDA a : a.lockState = "locked")

\* listProjectAssets resolves: without a locked asset the request is a 400,
\* else the prompt is built and the generation call is issued
ScenesRenderListAssets(t) ==
  LET input == task[t].input
      lockedRefs == LockedRefs(listProjectAssets(projectAssets, input.projectId))
  IN  /\ task[t].pc = "render_listAssets"
      /\ StepTask(t,
           IF lockedRefs = <<>>
           THEN [task[t] EXCEPT
                   !.pc = "done",
                   !.resp = Respond(400,
                     "No locked project assets available for scene rendering")]
           ELSE [task[t] EXCEPT
                   !.pc = "render_generate", !.called = TRUE,
                   !.lockedRefs = [k \in 1..Len(lockedRefs) |-> lockedRefs[k].id]])
      /\ UNCHANGED <<ledgerVars, projects, projectAssets, compiledScenes, sceneFrames, clock>>

\* the generation call settles: a failure is caught, else createJob is issued
ScenesRenderGenerated(t) ==
  /\ task[t].pc = "render_generate"
  /\ \E response \in ProviderResponses :
       LET result == generateImageBase64(response)
       IN  StepTask(t, IF result.threw THEN CaughtTask(task[t], FALSE)
                       ELSE [task[t] EXCEPT !.pc = "render_createJob", !.b64 = result.b64])
  /\ UNCHANGED <<ledgerVars, projects, projectAssets, compiledScenes, sceneFrames, clock>>

\* createJob resolves; the job is not written again
ScenesRenderCreateJob(t) ==
  /\ task[t].pc = "render_createJob"
  /\ jobs' = createJob(jobs)
  /\ jobLog' = LogWrite(jobLog, jobs', Len(jobs'), TaskWriter(t))
  /\ StepTask(t, [task[t] EXCEPT !.pc = "render_createAsset", !.jobId = Len(jobs')])
  /\ UNCHANGED <<assets, renditions, projects, projectAssets, compiledScenes,
                 sceneFrames, clock>>

ScenesRenderCreateAsset(t) ==
  /\ task[t].pc = "render_createAsset"
  /\ assets' = createAsset(assets,
       [jobId |-> task[t].jobId, prompt |-> <<"scene">>, mode |-> "scene-render",
        projectName |-> "", assetCategory |-> "", sceneIndex |-> 0])
  /\ StepTask(t, [task[t] EXCEPT !.pc = "render_createRendition", !.assetId = Len(assets')])
  /\ UNCHANGED <<jobs, jobLog, renditions, projects, projectAssets, compiledScenes,
                 sceneFrames, clock>>

\* createRendition resolves; the frame id is built with Date.now()
ScenesRenderCreateRendition(t) ==
  /\ task[t].pc = "render_createRendition"
  /\ LET dims == sizeToDims(SizeOrDefault(task[t].input.size))
     IN  renditions' = createRendition(renditions,
           [assetId |-> task[t].assetId, mimeType |-> "image/png", width |-> dims.width,
            height |-> dims.height, dataBase64 |-> task[t].b64])
  /\ \E stamp \in 0..MaxStamp :
       /\ Now(stamp)
       /\ StepTask(t, [task[t] EXCEPT !.pc = "render_createFrame", !.stamp = stamp])
  /\ UNCHANGED <<jobs, jobLog, assets, projects, projectAssets, compiledScenes, sceneFrames>>

\* createSceneFrame resolves: the frame records the locked assets it was rendered from
ScenesRenderCreateFrame(t) ==
  LET input == task[t].input
      frameId == FrameId(input.sceneId, input.frameIndex, task[t].stamp)
  IN  /\ task[t].pc = "render_createFrame"
      /\ IF PrimaryKeyTaken(sceneFrames, frameId)
         THEN /\ StepTask(t, CaughtTask(task[t], FALSE))
              /\ UNCHANGED sceneFrames
         ELSE /\ sceneFrames' = createSceneFrame(sceneFrames,
                   [id |-> frameId, projectId |-> input.projectId,
                    sceneId |-> input.sceneId, frameIndex |-> input.frameIndex,
                    renderVersion |-> 1, consistencyScore |-> 100,
                    lockedAssetIds |-> task[t].lockedRefs,
                    renderedFromLockedAssetsOnly |-> TRUE, assetId |-> task[t].assetId])
              /\ StepTask(t, [task[t] EXCEPT !.pc = "done", !.resp = Respond(201, "")])
      /\ UNCHANGED <<ledgerVars, projects, projectAssets, compiledScenes, clock>>

(***************************************************************************)
(* The registry workloads.                                                 *)
(***************************************************************************)
\* the server has just started: ledger and registry are empty
InitRegistryWith(requests) ==
  /\ jobs = <<>> /\ assets = <<>> /\ renditions = <<>> /\ jobLog = <<>>
  /\ run = <<>>
  /\ env = OpenAIEnv /\ clientCalls = <<>>
  /\ projects = <<>> /\ projectAssets = <<>> /\ compiledScenes = <<>> /\ sceneFrames = <<>>
  /\ clock = 1
  /\ task = [t \in DOMAIN requests |->
              [IdleTask EXCEPT !.op = requests[t].flow, !.input = requests[t].input]]

LockedAiko == ProjectAssetId("character", "Aiko", 0)

DraftMill == ProjectAssetId("environment", "Old Mill", 0)

DraftAiko == ProjectAssetId("prop", "Aiko", 0)

\* the state earlier requests have left (writer 0 stands for them): the
\* ledger holds the seeded starter asset; project "alpha" has two compiled
\* scenes, a locked and a draft asset; project "gamma" has one compiled scene
\* and a draft asset; project "delta" has no scene and no asset
InitRegistryPrepared(requests) ==
  /\ jobs = <<[status |-> "queued", progress |-> 0, error |-> "", completed |-> FALSE]>>
  /\ jobLog = << <<[status |-> "queued", progress |-> 0, by |-> 0]>> >>
  /\ assets = <<[jobId |-> 1, prompt |-> <<"desk lamp">>, mode |-> "seeded",
                 projectName |-> "", assetCategory |-> "", sceneIndex |-> 0]>>
  /\ renditions = <<[assetId |-> 1, mimeType |-> "image/png", width |-> 1,
                     height |-> 1, dataBase64 |-> "transparent-png"]>>
  /\ run = <<>>
  /\ env = OpenAIEnv /\ clientCalls = <<>>
  /\ projects = [k \in 1..3 |->
                   [id |-> <<"alpha", "gamma", "delta">>[k], name |-> "Saga",
                    visualStyle |-> "ink", status |-> "active"]]
  /\ projectAssets =
       <<[id |-> LockedAiko, projectId |-> "alpha", type |-> "character",
          name |-> "Aiko", version |-> 1, lockState |-> "locked"],
         [id |-> DraftMill, projectId |-> "alpha", type |-> "environment",
          name |-> "Old Mill", version |-> 1, lockState |-> "draft"],
         [id |-> DraftAiko, projectId |-> "gamma", type |-> "prop",
          name |-> "Aiko", version |-> 1, lockState |-> "draft"]>>
  /\ compiledScenes =
       [k \in 1..3 |->
          LET projectId == IF k <= 2 THEN "alpha" ELSE "gamma"
              graph == buildSceneGraph(ScriptOnePara, 2)[IF k <= 2 THEN k ELSE 1]
          IN  [id |-> SceneId(projectId, graph.sceneIndex), projectId |-> projectId,
               sceneIndex |-> graph.sceneIndex, status |-> "compiled", graph |-> graph]]
  /\ sceneFrames = <<>>
  /\ clock = 1
  /\ task = [t \in DOMAIN requests |->
              [IdleTask EXCEPT !.op = requests[t].flow, !.input = requests[t].input]]

\* the requests handled while the server starts
StartupRequests ==
  {Seeding}
  \cup CreateProjectRequests({"alpha"}, {"Saga"})
  \cup CreateAssetRequests({"alpha"}, {"character"}, {"Aiko"})
  \cup CompileRequests({"alpha"}, {ScriptOnePara}, {MinCompileSceneCount})

\* the requests handled concurrently on the prepared registry
ConcurrentRegistryRequests ==
  CreateProjectRequests({"alpha", "omega"}, {"Saga"})
  \cup CreateAssetRequests({"alpha"}, {"character"}, {"Aiko"})
  \cup LockRequests({"alpha"}, {LockedAiko, DraftMill})
  \cup LockRequests({"gamma"}, {DraftAiko, DraftMill})
  \cup CompileRequests({"delta"}, {ScriptOnePara}, {MaxScenes})
  \cup RenderRequests({"alpha", "gamma"}, {SceneId("alpha", 1), SceneId("gamma", 1)},
                      {MinFrameIndex}, {""})

\* the requests handled one at a time on the prepared registry
SingleRegistryRequests ==
  {Seeding}
  \cup CreateProjectRequests({"ab", "alpha", "omega"}, {"", "Saga", LongProjectName})
  \cup CreateAssetRequests({"alpha", "omega"}, RegistryAssetTypes \cup {"villain"},
                           {"", "Aiko", "Aiko!"})
  \cup LockRequests({"alpha", "gamma", "omega"},
                    {LockedAiko, DraftMill, DraftAiko, ProjectAssetId("prop", "Aiko", 1)})
  \cup CompileRequests({"alpha", "delta", "omega"}, {ScriptOnePara, ScriptTooShort, ScriptPlain},
                       (MinCompileSceneCount - 1)..(MaxScenes + 1)
                         \cup {MaxCompileSceneCount, MaxCompileSceneCount + 1})
  \cup RenderRequests({"alpha", "gamma", "delta", "omega"},
                      {SceneId("alpha", 1), SceneId("alpha", 2), SceneId("alpha", 3)},
                      {MinFrameIndex - 1, MinFrameIndex}, {"", "256x256", "2048x2048"})

InitRegistry ==
  \/ \E requests \in [1..MaxTasks -> StartupRequests] : InitRegistryWith(requests)
  \/ \E requests \in [1..MaxTasks -> ConcurrentRegistryRequests] :
       InitRegistryPrepared(requests)
  \/ \E request \in SingleRegistryRequests : InitRegistryPrepared(<<request>>)

NextRegistry ==
  \/ \E t \in Tasks : SeedDatabase(t)
  \/ \E t \in Tasks : SeedCreateJob(t)
  \/ \E t \in Tasks : SeedCreateAsset(t)
  \/ \E t \in Tasks : SeedCreateRendition(t)
  \/ \E t \in Tasks : ProjectsCreate(t)
  \/ \E t \in Tasks : ProjectsCreateInsert(t)
  \/ \E t \in Tasks : ProjectAssetsCreate(t)
  \/ \E t \in Tasks : ProjectAssetsCreateInsert(t)
  \/ \E t \in Tasks : ProjectAssetsLock(t)
  \/ \E t \in Tasks : ScenesCompile(t)
  \/ \E t \in Tasks : ScenesCompileInsert(t)
  \/ \E t \in Tasks : ScenesRender(t)
  \/ \E t \in Tasks : ScenesRenderGetScene(t)
  \/ \E t \in Tasks : ScenesRenderListAssets(t)
  \/ \E t \in Tasks : ScenesRenderGenerated(t)
  \/ \E t \in Tasks : ScenesRenderCreateJob(t)
  \/ \E t \in Tasks : ScenesRenderCreateAsset(t)
  \/ \E t \in Tasks : ScenesRenderCreateRendition(t)
  \/ \E t \in Tasks : ScenesRenderCreateFrame(t)

SpecRegistry == InitRegistry /\ [][NextRegistry]_vars

(***************************************************************************)
(* Views of the ledger and of the runs used by the properties below.       *)
(***************************************************************************)
TerminalStatuses == {"succeeded", "failed"}

\* the ids of the assets whose jobId is j, in creation order
JobAssets(j) ==
  SelectSeq([k \in 1..Len(assets) |-> k], LAMBDA a : assets[a].jobId = j)

\* the ids of the renditions of asset a, in creation order
AssetRenditions(a) ==
  SelectSeq([k \in 1..Len(renditions) |-> k], LAMBDA x : renditions[x].assetId = a)

\* the asset rows of job j and the rendition rows of its assets
JobAssetRows(j) == SelectSeq(assets, LAMBDA row : row.jobId = j)

JobRenditionRows(j) ==
  SelectSeq(renditions, LAMBDA row :
    row.assetId \in DOMAIN assets /\ assets[row.assetId].jobId = j)

\* the progress values stored for job j, from the initial one on
ProgressValues(j) == [k \in 1..Len(jobLog[j]) |-> jobLog[j][k].progress]

StatusValues(j) == [k \in 1..Len(jobLog[j]) |-> jobLog[j][k].status]

RECURSIVE RemoveRepeats(_)
\* a sequence without the elements that repeat their predecessor
RemoveRepeats(seq) ==
  IF Len(seq) <= 1 THEN seq
  ELSE IF seq[1] = seq[2] THEN RemoveRepeats(Tail(seq))
  ELSE <<seq[1]>> \o RemoveRepeats(Tail(seq))

HasJob(r) == run[r].jobId # 0

Ended(r) == run[r].pc = "done"

MultiStep(r) == run[r].flow \in {"pack", "storyboard"}

\* the provider failed the last generation call of run r
ProviderFailed(r) == run[r].response \in {"empty", "error"}

(***************************************************************************)
(* C1.  A job is created queued and its stored status only moves           *)
(* queued -> running -> succeeded | failed: no write moves it backwards    *)
(* and no terminal status is replaced by the other one.                    *)
(***************************************************************************)
StatusMove(old, new) ==
  \/ old = new
  \/ old = "queued" /\ new = "running"
  \/ old = "running" /\ new \in TerminalStatuses

C1_JobStatusOrder ==
  [][/\ \A j \in DOMAIN jobs :
          j \in DOMAIN jobs' /\ StatusMove(jobs[j].status, jobs'[j].status)
     /\ \A j \in DOMAIN jobs' \ DOMAIN jobs : jobs'[j].status = "queued"]_vars

C1_Witness ==
  \E r \in Runs :
    /\ HasJob(r) /\ jobs[run[r].jobId].status = "succeeded"
    /\ RemoveRepeats(StatusValues(run[r].jobId)) = <<"queued", "running", "succeeded">>
    /\ \E j \in DOMAIN jobs : j # run[r].jobId

(***************************************************************************)
(* C2.  Every run that created a job ends with the job in a terminal       *)
(* status, reached by exactly one terminal write, whatever the provider    *)
(* answered.  (Stated on the state in which the run has ended.)            *)
(***************************************************************************)
TerminalWrites(j) ==
  Len(SelectSeq(jobLog[j], LAMBDA w : w.status \in TerminalStatuses))

C2_EveryRunEndsTerminal ==
  \A r \in Runs :
    Ended(r) /\ HasJob(r) =>
      /\ jobs[run[r].jobId].status \in TerminalStatuses
      /\ TerminalWrites(run[r].jobId) = 1

(***************************************************************************)
(* C3.  A single-image request whose provider call returns an empty image  *)
(* list ends with its job failed with error "No image data returned" and   *)
(* with the response 500 carrying that message.                            *)
(***************************************************************************)
C3_EmptyImageListFailsJob ==
  \A r \in Runs :
    run[r].flow = "image" /\ Ended(r) /\ run[r].response = "empty" =>
      /\ jobs[run[r].jobId].status = "failed"
      /\ jobs[run[r].jobId].error = "No image data returned"
      /\ run[r].resp = Respond(500, "No image data returned")

(***************************************************************************)
(* C4.  In project-pack and storyboard mode a generation call that fails   *)
(* or returns no payload aborts the run and moves the job to failed.       *)
(***************************************************************************)
C4_MultiStepFailureMarksFailed ==
  \A r \in Runs :
    MultiStep(r) /\ ProviderFailed(r) =>
      Ended(r) /\ jobs[run[r].jobId].status = "failed"

(***************************************************************************)
(* C5.  In project-pack and storyboard mode a provider failure ends the    *)
(* run with the generic 500 and without a job update: the job stays        *)
(* running, with the progress of the last completed step, and is never     *)
(* written as failed.                                                      *)
(***************************************************************************)
\* the progress the handler wrote last before the call that failed
LastStepProgress(r) ==
  IF run[r].flow = "pack" THEN 10
  ELSE IF run[r].i = 1 THEN 5
  ELSE RoundPercent(run[r].i - 1, Len(run[r].scenes))

C5_MultiStepFailureLeavesRunning ==
  \A r \in Runs :
    MultiStep(r) /\ ProviderFailed(r) =>
      /\ Ended(r)
      /\ run[r].resp = Respond(500, "Internal error")
      /\ jobs[run[r].jobId].status = "running"
      /\ jobs[run[r].jobId].progress = LastStepProgress(r)
      /\ \A k \in 1..Len(jobLog[run[r].jobId]) :
           jobLog[run[r].jobId][k].status # "failed"

C5_Witness ==
  \E r \in Runs :
    /\ run[r].flow = "storyboard" /\ ProviderFailed(r) /\ Ended(r)
    /\ run[r].i = 2
    /\ jobs[run[r].jobId].status = "running"
    /\ jobs[run[r].jobId].progress = 50

(***************************************************************************)
(* C6.  In a multi-step run the first provider failure ends the run: the   *)
(* failed call is the last call issued (no retry, no later call), nothing  *)
(* is in flight, and from then on no asset or rendition of the job is      *)
(* created and the ones created by the earlier steps stay unchanged.       *)
(***************************************************************************)
C6_FirstFailureEndsRun ==
  [][\A r \in Runs :
       (MultiStep(r) /\ ProviderFailed(r))' =>
         /\ Ended(r)'
         /\ run'[r].inFlight = 0
         /\ run'[r].calls = Len(JobAssetRows(run[r].jobId))' + 1
         /\ Len(JobRenditionRows(run[r].jobId))' = Len(JobAssetRows(run[r].jobId))'
         /\ (MultiStep(r) /\ ProviderFailed(r)) =>
              /\ run'[r] = run[r]
              /\ JobAssetRows(run[r].jobId)' = JobAssetRows(run[r].jobId)
              /\ JobRenditionRows(run[r].jobId)' = JobRenditionRows(run[r].jobId)]_vars

C6_Witness ==
  \E r \in Runs :
    /\ MultiStep(r) /\ ProviderFailed(r) /\ Ended(r)
    /\ run[r].calls >= 2
    /\ Len(JobAssets(run[r].jobId)) = run[r].calls - 1
    /\ Len(assets) > Len(JobAssets(run[r].jobId))

(***************************************************************************)
(* C7.  A job's progress equals 100 only if its status is succeeded or     *)
(* failed.                                                                 *)
(***************************************************************************)
C7_FullProgressOnlyTerminal ==
  \A j \in DOMAIN jobs :
    jobs[j].progress = 100 => jobs[j].status \in TerminalStatuses

(***************************************************************************)
(* C8.  The progress values stored for a job over its run start at 0 and   *)
(* never decrease, in each flow and for every number of scenes 2..8.       *)
(***************************************************************************)
C8_ProgressNonDecreasing ==
  \A j \in DOMAIN jobLog :
    /\ ProgressValues(j)[1] = 0
    /\ \A k \in 1..(Len(jobLog[j]) - 1) :
         ProgressValues(j)[k] <= ProgressValues(j)[k + 1]

C8_Witness ==
  \E r \in Runs :
    /\ run[r].flow = "storyboard" /\ Ended(r) /\ run[r].resp.status = 201
    /\ Len(run[r].scenes) = MaxSceneCount
    /\ Len(ProgressValues(run[r].jobId)) = MaxSceneCount + 3

(***************************************************************************)
(* C9.  A storyboard run with sceneCount = 4 over a script of 4 paragraphs *)
(* whose provider calls all succeed creates exactly 4 assets with one      *)
(* rendition each and ends succeeded.  As amended: the progress values     *)
(* stored over the run are 0 at creation, 5 when the job is set running,   *)
(* then 25, 50, 75, 100 after the scenes, and 100 again with succeeded.    *)
(* As stated originally: the progress values are 25, 50, 75, 100.          *)
(***************************************************************************)
FourSceneRun(r) ==
  /\ run[r].flow = "storyboard"
  /\ run[r].input.script = ScriptFourParas
  /\ run[r].input.sceneCount = 4
  /\ Ended(r)
  /\ run[r].resp.status = 201

FourPairs(j) ==
  /\ Len(JobAssets(j)) = 4
  /\ \A k \in 1..4 : Len(AssetRenditions(JobAssets(j)[k])) = 1
  /\ [k \in 1..4 |-> assets[JobAssets(j)[k]].prompt] = <<<<"p1">>, <<"p2">>, <<"p3">>, <<"p4">>>>

C9_FourScenesAmended ==
  \A r \in Runs :
    FourSceneRun(r) =>
      /\ FourPairs(run[r].jobId)
      /\ ProgressValues(run[r].jobId) = <<0, 5, 25, 50, 75, 100, 100>>
      /\ jobs[run[r].jobId].status = "succeeded"

C9_FourScenesOriginal ==
  \A r \in Runs :
    FourSceneRun(r) =>
      /\ FourPairs(run[r].jobId)
      /\ RemoveRepeats(Tail(ProgressValues(run[r].jobId))) = <<25, 50, 75, 100>>
      /\ jobs[run[r].jobId].status = "succeeded"

C9_Witness ==
  \E r \in Runs : FourSceneRun(r) /\ Len(JobAssets(run[r].jobId)) = 4

(***************************************************************************)
(* C10.  A storyboard run never has two generation calls in flight, and    *)
(* while the call of scene N is in flight the assets and renditions of     *)
(* scenes 1..N-1 exist and the progress of scene N-1 has been written.     *)
(***************************************************************************)
C10_ScenesStrictlySequential ==
  \A r \in Runs :
    run[r].flow = "storyboard" =>
      /\ run[r].inFlight <= 1
      /\ run[r].inFlight = 1 =>
           LET n == run[r].i
               j == run[r].jobId
           IN  /\ run[r].calls = n
               /\ [k \in 1..Len(JobAssets(j)) |-> assets[JobAssets(j)[k]].sceneIndex]
                    = [k \in 1..(n - 1) |-> k]
               /\ \A k \in 1..(n - 1) : Len(AssetRenditions(JobAssets(j)[k])) = 1
               /\ Len(jobLog[j]) = n + 1
               /\ n > 1 => jobs[j].progress = RoundPercent(n - 1, Len(run[r].scenes))

C10_Witness ==
  \E r \in Runs :
    /\ run[r].flow = "storyboard" /\ run[r].inFlight = 1
    /\ run[r].i = 3
    /\ Len(JobAssets(run[r].jobId)) = 2

(***************************************************************************)
(* C11.  A request that fails input validation (script shorter than 20     *)
(* characters, sceneCount outside 2..8, a category count outside 1..6, a   *)
(* size outside the three buckets, projectName outside 1..120 characters,  *)
(* empty prompt) is answered 400 with a validation error; its handler      *)
(* creates no job, asset or rendition, updates no job and issues no        *)
(* provider call.                                                          *)
(***************************************************************************)
\* the request of run r has one of the listed defects
FailsValidation(r) ==
  LET input == run[r].input
      badSize == input.size \notin SupportedSizes \cup {""}
      badName(optional) ==
        /\ ~(optional /\ input.projectName = "")
        /\ \/ ProjectNameLength(input.projectName) < 1
           \/ ProjectNameLength(input.projectName) > 120
      badCount(c) == c < 1 \/ c > 6
  IN  \/ /\ run[r].flow = "image"
         /\ input.prompt = "" \/ badSize \/ badName(TRUE)
      \/ /\ run[r].flow = "pack"
         /\ \/ ScriptLength(input.script) < 20
            \/ badCount(input.characterCount) \/ badCount(input.environmentCount)
            \/ badCount(input.natureCount)
            \/ badSize \/ badName(FALSE)
      \/ /\ run[r].flow = "storyboard"
         /\ \/ ScriptLength(input.script) < 20
            \/ input.sceneCount < 2 \/ input.sceneCount > 8
            \/ badSize \/ badName(FALSE)

C11_ValidationFailureTouchesNothing ==
  [][\A r \in Runs :
       FailsValidation(r) =>
         /\ run'[r].jobId = 0
         /\ run'[r].calls = 0 /\ run'[r].inFlight = 0
         /\ run'[r].pc \in {"idle", "done"}
         /\ run'[r].pc = "done" => run'[r].resp = Respond(400, "validation")
         /\ run'[r] # run[r] => UNCHANGED <<jobs, assets, renditions, jobLog>>]_vars

C11_Witness ==
  \E r \in Runs :
    /\ FailsValidation(r) /\ Ended(r)
    /\ run[r].resp = Respond(400, "validation")
    /\ jobs # <<>> /\ assets # <<>>

(***************************************************************************)
(* C12.  For a script of at least 2 blank-line-separated paragraphs and a  *)
(* requested count of at least 2 the segmenter returns exactly the         *)
(* requested number of non-empty chunks, and the chunks, one after the     *)
(* other, are the paragraphs of the script, each once, in their order.     *)
(***************************************************************************)
\* the summaries of the scenes of run r, one after the other
SceneTexts(r) == Flatten([k \in 1..Len(run[r].scenes) |-> run[r].scenes[k].summary])

\* run r has segmented a script of at least 2 paragraphs
SegmentedParagraphs(r) ==
  /\ run[r].flow = "storyboard"
  /\ run[r].pc = "sb_createJob"
  /\ Len(run[r].input.script.paras) >= 2
  /\ run[r].input.sceneCount >= 2

C12_SegmenterCoversParagraphsOnce ==
  \A r \in Runs :
    SegmentedParagraphs(r) =>
      /\ Len(run[r].scenes) = run[r].input.sceneCount
      /\ \A k \in 1..Len(run[r].scenes) : run[r].scenes[k].summary # <<>>
      /\ SceneTexts(r) = Flatten(Blocks(run[r].input.script))

(***************************************************************************)
(* C13.  For a script accepted by validation (at least 20 characters) and  *)
(* a requested scene count from 2 to 8 the segmenter returns at least 2    *)
(* and at most the requested number of scene descriptors.                  *)
(***************************************************************************)
C13_SceneCountWithinBounds ==
  \A r \in Runs :
    /\ run[r].flow = "storyboard"
    /\ run[r].pc \notin {"idle", "done"}
    /\ ScriptLength(run[r].input.script) >= 20
    /\ run[r].input.sceneCount \in 2..8
    => /\ Len(run[r].scenes) >= 2
       /\ Len(run[r].scenes) <= run[r].input.sceneCount

(***************************************************************************)
(* C14.  A project-pack request with the three counts equal to 1, on a     *)
(* script without a title-case name and without a line holding an          *)
(* environment or nature keyword, creates exactly 3 assets, one per        *)
(* category, each with the truncated prefix of the script as descriptor.   *)
(***************************************************************************)
\* the script has no title-case name and no line with a keyword
NoNameNoKeyword(script) ==
  \A k \in 1..Len(AllLines(script)) :
    /\ AllLines(script)[k].name = ""
    /\ ~AllLines(script)[k].env
    /\ ~AllLines(script)[k].nat

C14_PackFallbackDescriptors ==
  \A r \in Runs :
    /\ run[r].flow = "pack"
    /\ run[r].input.characterCount = 1
    /\ run[r].input.environmentCount = 1
    /\ run[r].input.natureCount = 1
    /\ NoNameNoKeyword(run[r].input.script)
    /\ Ended(r) /\ run[r].resp.status = 201
    => LET rows == JobAssetRows(run[r].jobId)
       IN  /\ [k \in 1..Len(rows) |-> rows[k].assetCategory]
                = <<"character", "environment", "nature">>
           /\ \A k \in 1..Len(rows) :
                rows[k].prompt = <<ScriptPrefix(run[r].input.script)>>

(***************************************************************************)
(* C15.  In a project-pack run the character assets are generated and      *)
(* persisted before every environment asset and the environment assets     *)
(* before every nature asset: the categories of the job's assets are in    *)
(* that order, and while a generation call is in flight every earlier      *)
(* asset and rendition of the run exists and none is of a later category.  *)
(* A successful run has created, per category, at least 1 asset and at     *)
(* most the count requested for the category.                              *)
(***************************************************************************)
CategoryRank(category) ==
  IF category = "character" THEN 1 ELSE IF category = "environment" THEN 2 ELSE 3

\* the number of assets of job j that are of the category
CategoryCount(j, category) ==
  Len(SelectSeq(JobAssetRows(j), LAMBDA row : row.assetCategory = category))

C15_PackCategoryOrder ==
  \A r \in Runs :
    run[r].flow = "pack" /\ HasJob(r) =>
      LET rows == JobAssetRows(run[r].jobId)
          input == run[r].input
      IN  /\ \A k \in 1..(Len(rows) - 1) :
               CategoryRank(rows[k].assetCategory) <= CategoryRank(rows[k + 1].assetCategory)
          /\ run[r].inFlight > 0 =>
               /\ Len(rows) = run[r].calls - 1
               /\ Len(JobRenditionRows(run[r].jobId)) = run[r].calls - 1
               /\ \A k \in 1..Len(rows) :
                    CategoryRank(rows[k].assetCategory)
                      <= CategoryRank(run[r].plan[run[r].calls].category)
          /\ Ended(r) /\ run[r].resp.status = 201 =>
               /\ CategoryCount(run[r].jobId, "character") \in 1..input.characterCount
               /\ CategoryCount(run[r].jobId, "environment") \in 1..input.environmentCount
               /\ CategoryCount(run[r].jobId, "nature") \in 1..input.natureCount
               /\ Len(rows) = CategoryCount(run[r].jobId, "character")
                    + CategoryCount(run[r].jobId, "environment")
                    + CategoryCount(run[r].jobId, "nature")

C15_Witness ==
  \E r \in Runs :
    /\ run[r].flow = "pack" /\ Ended(r) /\ run[r].resp.status = 201
    /\ CategoryCount(run[r].jobId, "character") = 2
    /\ CategoryCount(run[r].jobId, "environment") = 2
    /\ CategoryCount(run[r].jobId, "nature") = 1

(***************************************************************************)
(* C16.  A single-image request that carries only a prompt (default size)  *)
(* and whose provider call succeeds leaves exactly one job of its own,     *)
(* succeeded with progress 100, exactly one asset whose prompt is the      *)
(* request prompt, and exactly one rendition of it, 1024 x 1024 and of     *)
(* type image/png.                                                         *)
(***************************************************************************)
\* the jobs created by run r
JobsCreatedBy(r) == {j \in DOMAIN jobLog : jobLog[j][1].by = r}

\* run r handled a request with nothing but a prompt and answered 201
PromptOnlyImageDone(r) ==
  /\ run[r].flow = "image"
  /\ run[r].input = [NoInput EXCEPT !.prompt = run[r].input.prompt]
  /\ run[r].response = "image"
  /\ Ended(r) /\ run[r].resp.status = 201

C16_PromptOnlyImage ==
  \A r \in Runs :
    PromptOnlyImageDone(r) =>
      LET j == run[r].jobId
          rows == JobAssetRows(j)
          rend == JobRenditionRows(j)
      IN  /\ JobsCreatedBy(r) = {j}
          /\ jobs[j].status = "succeeded" /\ jobs[j].progress = 100
          /\ Len(rows) = 1
          /\ rows[1].prompt = <<run[r].input.prompt>>
          /\ Len(rend) = 1
          /\ rend[1].width = 1024 /\ rend[1].height = 1024
          /\ rend[1].mimeType = "image/png"

C16_Witness ==
  \E r \in Runs :
    /\ PromptOnlyImageDone(r)
    /\ run[r].input.prompt = "a red cube"
    /\ Len(JobAssetRows(run[r].jobId)) = 1

(***************************************************************************)
(* C17.  The reference context of a storyboard request lists the assets    *)
(* selected by the explicit reference-asset-id list when a non-empty list  *)
(* is supplied, and otherwise assets tagged character, environment or      *)
(* nature; in both cases it lists at most 12 assets.                       *)
(***************************************************************************)
\* run r has built its reference context
HasReferenceContext(r) ==
  run[r].flow = "storyboard" /\ run[r].pc \notin {"idle", "done"}

C17_ReferenceContextCapped ==
  \A r \in Runs :
    HasReferenceContext(r) =>
      LET context == run[r].referenceContext
          ids == run[r].input.referenceAssetIds
      IN  /\ \A k \in 1..Len(context) :
               /\ context[k] \in DOMAIN assets
               /\ IF ids # {} THEN context[k] \in ids
                  ELSE assets[context[k]].assetCategory
                         \in {"character", "environment", "nature"}
          /\ Len(context) <= 12

(***************************************************************************)
(* C18.  The reference context of a storyboard run is computed once, when  *)
(* the request is parsed: before the run has a job and before any of its   *)
(* generation calls.  It lists only assets stored at that moment, it is    *)
(* never changed afterwards, every scene prompt of the run carries it, and *)
(* it lists no frame of the run itself, also while other runs add assets.  *)
(***************************************************************************)
\* the ids listed in a reference context
ContextIds(r) == {run[r].referenceContext[k] : k \in 1..Len(run[r].referenceContext)}

C18_ReferenceContextComputedOnce ==
  [][\A r \in Runs :
       run[r].flow = "storyboard" =>
         /\ run[r].pc = "idle" /\ run'[r].pc # "idle" =>
              /\ ContextIds(r)' \subseteq DOMAIN assets
              /\ run'[r].jobId = 0 /\ run'[r].calls = 0 /\ run'[r].prompts = <<>>
         /\ run[r].pc # "idle" => run'[r].referenceContext = run[r].referenceContext
         /\ \A k \in 1..Len(run'[r].prompts) :
              run'[r].prompts[k].referenceContext = run'[r].referenceContext
         /\ Len(run'[r].prompts) = run'[r].calls
         /\ \A id \in ContextIds(r)' :
              run'[r].jobId = 0 \/ assets'[id].jobId # run'[r].jobId]_vars

\* after the context was built another run has stored a tagged asset of the project
C18_Witness ==
  \E r \in Runs :
    /\ run[r].flow = "storyboard"
    /\ Len(run[r].prompts) = 2
    /\ Len(JobAssetRows(run[r].jobId)) >= 1
    /\ \E id \in DOMAIN assets \ ContextIds(r) :
         /\ assets[id].projectName = run[r].input.projectName
         /\ assets[id].assetCategory = "character"

(***************************************************************************)
(* C19.  With several runs on one ledger every write to a job row comes    *)
(* from the run that created the job, and the statuses and progress values *)
(* written to the job are those the run writes when it is alone: queued 0, *)
(* running 10 (5 for a storyboard), one value per finished scene, and      *)
(* succeeded 100, up to the point the run has reached.                     *)
(***************************************************************************)
Written(status, progress) == [status |-> status, progress |-> progress]

\* the writes of a run that is alone and whose calls all succeed
SoloHistory(r) ==
  IF run[r].flow = "storyboard"
  THEN LET n == Len(run[r].scenes)
       IN  <<Written("queued", 0), Written("running", 5)>>
             \o [k \in 1..n |-> Written("running", RoundPercent(k, n))]
             \o <<Written("succeeded", 100)>>
  ELSE <<Written("queued", 0), Written("running", 10), Written("succeeded", 100)>>

\* the writes made to job j so far
History(j) ==
  [k \in 1..Len(jobLog[j]) |-> Written(jobLog[j][k].status, jobLog[j][k].progress)]

C19_JobWrittenByItsRunOnly ==
  /\ \A j \in DOMAIN jobLog :
       /\ \A k \in 1..Len(jobLog[j]) : jobLog[j][k].by = jobLog[j][1].by
       /\ Written(jobs[j].status, jobs[j].progress) = History(j)[Len(jobLog[j])]
  /\ \A r \in Runs :
       HasJob(r) =>
         /\ JobsCreatedBy(r) = {run[r].jobId}
         /\ Len(History(run[r].jobId)) <= Len(SoloHistory(r))
         /\ History(run[r].jobId) = SubSeq(SoloHistory(r), 1, Len(History(run[r].jobId)))
         /\ Ended(r) /\ run[r].resp.status = 201 =>
              History(run[r].jobId) = SoloHistory(r)

\* two runs have finished, the one that created its job first stored its asset last
C19_Witness ==
  \E r1, r2 \in Runs :
    /\ r1 # r2
    /\ Ended(r1) /\ run[r1].resp.status = 201
    /\ Ended(r2) /\ run[r2].resp.status = 201
    /\ run[r1].jobId < run[r2].jobId
    /\ JobAssets(run[r1].jobId) # <<>> /\ JobAssets(run[r2].jobId) # <<>>
    /\ JobAssets(run[r2].jobId)[1] < JobAssets(run[r1].jobId)[1]

(***************************************************************************)
(* C20.  No asset ever has more than one rendition, and when a flow has    *)
(* completed successfully every asset it created has exactly one, which    *)
(* is the rendition returned as the latest one of the asset.               *)
(***************************************************************************)
C20_OneRenditionPerAsset ==
  /\ \A a \in DOMAIN assets : Len(AssetRenditions(a)) <= 1
  /\ \A r \in Runs :
       Ended(r) /\ run[r].resp.status = 201 =>
         \A k \in 1..Len(JobAssets(run[r].jobId)) :
           LET a == JobAssets(run[r].jobId)[k]
           IN  /\ Len(AssetRenditions(a)) = 1
               /\ getLatestRenditionByAsset(renditions, a) = AssetRenditions(a)[1]

C20_Witness ==
  \E r \in Runs :
    /\ run[r].flow = "storyboard"
    /\ Ended(r) /\ run[r].resp.status = 201
    /\ Len(JobAssets(run[r].jobId)) >= 2
    /\ Len(assets) > Len(JobAssets(run[r].jobId))
    /\ getLatestRenditionByAsset(renditions, JobAssets(run[r].jobId)[1]) # 0

(***************************************************************************)
(* C21.  The character candidates extracted from a script for a project    *)
(* pack are at most characterCount names; each is a title-case word of at  *)
(* least three letters that occurs in the script, none occurs twice, and   *)
(* they are in the order in which the script first mentions them.  They    *)
(* are the character descriptors the pack generates.                       *)
(***************************************************************************)
\* the descriptors of one category in the plan of run r
PlannedDescriptors(r, category) ==
  LET entries == SelectSeq(run[r].plan, LAMBDA e : e.category = category)
  IN  [k \in 1..Len(entries) |-> entries[k].descriptor]

\* the position of the first line of the script that holds the word
FirstSeen(script, word) ==
  LET lines == AllLines(script)
  IN  IF \E k \in 1..Len(lines) : lines[k].name = word
      THEN CHOOSE k \in 1..Len(lines) :
             /\ lines[k].name = word
             /\ \A m \in 1..(k - 1) : lines[m].name # word
      ELSE 0

TitleCaseWord(word) ==
  /\ WordShape(word).capitals = 1
  /\ WordShape(word).capitals + WordShape(word).lowers >= 3

C21_CharacterCandidates ==
  \A r \in Runs :
    run[r].flow = "pack" /\ run[r].plan # <<>> =>
      LET script == run[r].input.script
          names == extractCharacterCandidates(script, run[r].input.characterCount)
      IN  /\ PlannedDescriptors(r, "character")
               = IF names = <<>> THEN <<ScriptPrefix(script)>> ELSE names
          /\ Len(names) <= run[r].input.characterCount
          /\ \A k \in 1..Len(names) :
               /\ FirstSeen(script, names[k]) > 0
               /\ TitleCaseWord(names[k])
          /\ \A k, m \in 1..Len(names) : k # m => names[k] # names[m]
          /\ \A k \in 1..(Len(names) - 1) :
               FirstSeen(script, names[k]) < FirstSeen(script, names[k + 1])

\* a finished pack whose script mentions Al, NASA, Aiko twice, Mika and Kenji
C21_Witness ==
  \E r \in Runs :
    /\ run[r].flow = "pack" /\ Ended(r) /\ run[r].resp.status = 201
    /\ run[r].input.script = ScriptNames
    /\ run[r].input.characterCount = 2
    /\ PlannedDescriptors(r, "character") = <<"Aiko", "Mika">>

(***************************************************************************)
(* C22.  The environment and the nature candidates extracted for a project *)
(* pack are at most the requested count of items; each is a line of the    *)
(* script longer than 20 characters, and every returned line that holds a  *)
(* keyword of the category precedes every returned line that holds none.   *)
(* They are the descriptors the pack generates for the category.           *)
(***************************************************************************)
\* the line of the script with the given text
LineOf(script, text) == CHOOSE l \in {AllLines(script)[k] : k \in 1..Len(AllLines(script))} : l.text = text

IsScriptLine(script, text) == \E k \in 1..Len(AllLines(script)) : AllLines(script)[k].text = text

KeywordLinesFirst(script, items, count, keyword) ==
  /\ Len(items) <= count
  /\ \A k \in 1..Len(items) :
       /\ IsScriptLine(script, items[k])
       /\ LineOf(script, items[k]).len > 20
  /\ \A k, m \in 1..Len(items) :
       k < m /\ LineOf(script, items[m])[keyword] => LineOf(script, items[k])[keyword]

C22_KeywordCandidates ==
  \A r \in Runs :
    run[r].flow = "pack" /\ run[r].plan # <<>> =>
      LET script == run[r].input.script
          environments == extractEnvironmentCandidates(script, run[r].input.environmentCount)
          natures == extractNatureCandidates(script, run[r].input.natureCount)
      IN  /\ PlannedDescriptors(r, "environment")
               = IF environments = <<>> THEN <<ScriptPrefix(script)>> ELSE environments
          /\ PlannedDescriptors(r, "nature")
               = IF natures = <<>> THEN <<ScriptPrefix(script)>> ELSE natures
          /\ KeywordLinesFirst(script, environments, run[r].input.environmentCount, "env")
          /\ KeywordLinesFirst(script, natures, run[r].input.natureCount, "nat")

\* a finished pack: the one long environment line comes fourth in the script
\* and is returned first, the short keyword line is not returned
C22_Witness ==
  \E r \in Runs :
    /\ run[r].flow = "pack" /\ Ended(r) /\ run[r].resp.status = 201
    /\ run[r].input.script = ScriptNames
    /\ PlannedDescriptors(r, "environment") = <<"n4", "n1">>
    /\ PlannedDescriptors(r, "nature") = <<"n3", "n6">>

(***************************************************************************)
(* C25.  The reference context of a storyboard request for project P lists *)
(* only assets whose stored project name is P.  An id in the request's     *)
(* reference list that names an asset of another project, an asset without *)
(* a project or no asset at all is ignored without an error: the request   *)
(* is still accepted and the context lists exactly the named assets of P   *)
(* that were stored before the request (its own frames come later).        *)
(***************************************************************************)
C25_ReferenceContextOfProject ==
  \A r \in Runs :
    /\ HasReferenceContext(r) =>
         /\ \A id \in ContextIds(r) :
              /\ id \in DOMAIN assets
              /\ assets[id].projectName = run[r].input.projectName
         /\ run[r].input.referenceAssetIds # {} =>
              ContextIds(r) = {id \in run[r].input.referenceAssetIds \cap DOMAIN assets :
                                 /\ assets[id].projectName = run[r].input.projectName
                                 /\ assets[id].jobId # run[r].jobId}
    /\ run[r].flow = "storyboard" /\ Ended(r) /\ run[r].resp.status = 400 =>
         ~ValidStoryboardInput(run[r].input)

\* a finished storyboard of project P whose list named an asset of P and the
\* character asset of project Q
C25_Witness ==
  \E r \in Runs :
    /\ run[r].flow = "storyboard" /\ Ended(r) /\ run[r].resp.status = 201
    /\ run[r].input.referenceAssetIds = {2, OtherProjectAssetId}
    /\ assets[OtherProjectAssetId].projectName = "Q"
    /\ run[r].referenceContext = <<2>>

(***************************************************************************)
(* C26.  The job object in the 201 response of a generation flow (single   *)
(* image, project pack, storyboard) has the status and the progress the    *)
(* ledger stores for the job when the response is sent: succeeded and 100. *)
(***************************************************************************)
C26_ResponseJobIsStoredJob ==
  \A r \in Runs :
    Ended(r) /\ run[r].resp.status = 201 =>
      /\ run[r].body.job.status = jobs[run[r].jobId].status
      /\ run[r].body.job.progress = jobs[run[r].jobId].progress
      /\ run[r].body.job.status = "succeeded"
      /\ run[r].body.job.progress = 100

(***************************************************************************)
(* C23.  As stated: when both a pre-issued API key and request-signing     *)
(* credentials are configured for Backend B, the outgoing request carries  *)
(* both the bearer-token credential and the computed request signature.    *)
(***************************************************************************)
BothConfigured ==
  /\ getImageProvider(env) = "bedrock"
  /\ env.BEDROCK_API_KEY # ""
  /\ env.AWS_ACCESS_KEY_ID # "" /\ env.AWS_SECRET_ACCESS_KEY # ""

C23_BearerAndSignatureSent ==
  BothConfigured =>
    \A k \in 1..Len(clientCalls) :
      /\ clientCalls[k].sent
      /\ clientCalls[k].headers.Authorization = <<"Bearer", env.BEDROCK_API_KEY>>
      /\ clientCalls[k].headers.authorization # <<>>

(***************************************************************************)
(* C23, amended.  Every request sent to Backend B carries the bearer       *)
(* Authorization header.  When an API key is configured the request        *)
(* carries the key as bearer token and as x-api-key and carries no         *)
(* signature and no security token, whether or not signing credentials are *)
(* configured too.  The signature is sent exactly when no API key is       *)
(* configured; the bearer header then names no token.  Without an API key  *)
(* and without complete signing credentials no request is sent.            *)
(***************************************************************************)
C23_BearerOrSignature ==
  \A k \in 1..Len(clientCalls) :
    clientCalls[k].provider = "bedrock" =>
      LET headers == clientCalls[k].headers
      IN  IF env.BEDROCK_API_KEY # ""
          THEN /\ clientCalls[k].sent
               /\ headers.Authorization = <<"Bearer", env.BEDROCK_API_KEY>>
               /\ headers.xApiKey = <<env.BEDROCK_API_KEY>>
               /\ headers.authorization = <<>>
               /\ headers.xAmzSecurityToken = <<>>
          ELSE IF env.AWS_ACCESS_KEY_ID # "" /\ env.AWS_SECRET_ACCESS_KEY # ""
          THEN /\ clientCalls[k].sent
               /\ headers.Authorization = <<"Bearer", Undefined>>
               /\ headers.xApiKey = <<>>
               /\ Len(headers.authorization) = 1
               /\ headers.authorization[1].credential = env.AWS_ACCESS_KEY_ID
               /\ headers.authorization[1].signature.key = env.AWS_SECRET_ACCESS_KEY
          ELSE /\ ~clientCalls[k].sent
               /\ clientCalls[k].result = Threw

\* a request was sent and answered with both kinds of credentials configured
C23_Witness ==
  /\ BothConfigured
  /\ env.AWS_SESSION_TOKEN # ""
  /\ \E k \in 1..Len(clientCalls) :
       /\ clientCalls[k].sent /\ clientCalls[k].settled
       /\ clientCalls[k].result = Returned("base64-png")

(***************************************************************************)
(* Views of the registry and of its tasks.                                 *)
(***************************************************************************)
TaskEnded(t) == task[t].pc = "done"

\* the rows of a table that belong to the project
RowsOfProject(table, projectId) == SelectSeq(table, LAMBDA row : row.projectId = projectId)

\* the project asset with the given id is an asset of the project and locked
LockedInProject(table, projectId, assetId) ==
  \E k \in DOMAIN table :
    /\ table[k].id = assetId
    /\ table[k].projectId = projectId
    /\ table[k].lockState = "locked"

\* render task t was rejected because its project had no locked asset
RenderRejected(t) ==
  /\ task[t].op = "scenes.render"
  /\ TaskEnded(t)
  /\ task[t].resp = Respond(400, "No locked project assets available for scene rendering")

(***************************************************************************)
(* C24.  A scene render is blocked until assets of its project are locked. *)
(* A render request rejected for want of a locked asset is a 400 that has  *)
(* issued no provider call and created no job, asset, rendition or frame;  *)
(* a render that has issued its provider call has listed at least one      *)
(* locked asset.  Every id a render has listed, and every id recorded in a *)
(* frame's lockedAssetIds, is the id of an asset of the frame's project    *)
(* that is locked; a draft asset is never recorded.                        *)
(***************************************************************************)
C24_RenderNeedsLockedAssets ==
  /\ \A t \in Tasks :
       /\ RenderRejected(t) =>
            /\ ~task[t].called
            /\ task[t].jobId = 0 /\ task[t].assetId = 0 /\ task[t].b64 = ""
       /\ task[t].op = "scenes.render" /\ task[t].called =>
            /\ task[t].lockedRefs # <<>>
            /\ \A k \in 1..Len(task[t].lockedRefs) :
                 LockedInProject(projectAssets, task[t].input.projectId,
                                 task[t].lockedRefs[k])
  /\ \A j \in DOMAIN jobs :
       jobLog[j][1].by # 0 =>
         \E t \in Tasks :
           /\ jobLog[j][1].by = TaskWriter(t)
           /\ task[t].jobId = j
           /\ task[t].op = "seed" \/ task[t].called
  /\ \A a \in DOMAIN assets : assets[a].jobId \in DOMAIN jobs
  /\ \A k \in DOMAIN renditions : renditions[k].assetId \in DOMAIN assets
  /\ \A f \in DOMAIN sceneFrames :
       /\ \E t \in Tasks :
            /\ task[t].called
            /\ task[t].assetId = sceneFrames[f].assetId
            /\ task[t].lockedRefs = sceneFrames[f].lockedAssetIds
       /\ sceneFrames[f].lockedAssetIds # <<>>
       /\ \A k \in 1..Len(sceneFrames[f].lockedAssetIds) :
            LockedInProject(projectAssets, sceneFrames[f].projectId,
                            sceneFrames[f].lockedAssetIds[k])

\* a render of project gamma was rejected; a render of project alpha, which
\* has a locked and a draft asset, has stored a frame that names the locked one
C24_Witness ==
  \E t1, t2 \in Tasks :
    /\ RenderRejected(t1) /\ task[t1].input.projectId = "gamma"
    /\ task[t2].op = "scenes.render" /\ TaskEnded(t2) /\ task[t2].resp.status = 201
    /\ \E f \in DOMAIN sceneFrames :
         /\ sceneFrames[f].projectId = "alpha"
         /\ sceneFrames[f].lockedAssetIds = <<LockedAiko>>
    /\ \E k \in DOMAIN projectAssets :
         projectAssets[k].projectId = "alpha" /\ projectAssets[k].lockState = "draft"

(***************************************************************************)
(* C27.  After any sequence of operations every job that owns an asset has *)
(* left the queued status once the request (or the seeding) that created   *)
(* the asset has completed.                                                *)
(***************************************************************************)
C27_NoQueuedJobOwnsAsset ==
  \A t \in Tasks :
    TaskEnded(t) /\ task[t].assetId # 0 =>
      jobs[assets[task[t].assetId].jobId].status # "queued"

(***************************************************************************)
(* C28.  A project asset is created in lock state draft.  The lock         *)
(* operation on an existing (project, asset) pair answers 200 and leaves   *)
(* that asset locked, whether it was draft or locked, and changes no other *)
(* asset; on a pair that does not exist it answers 404 and changes no      *)
(* asset.  No step ever removes an asset or returns a locked asset to      *)
(* draft.                                                                  *)
(***************************************************************************)
C28_LockIsOneWay ==
  [][/\ \A k \in DOMAIN projectAssets :
          /\ k \in DOMAIN projectAssets'
          /\ projectAssets'[k].id = projectAssets[k].id
          /\ projectAssets'[k].projectId = projectAssets[k].projectId
          /\ projectAssets[k].lockState = "locked" => projectAssets'[k].lockState = "locked"
     /\ \A k \in DOMAIN projectAssets' \ DOMAIN projectAssets :
          projectAssets'[k].lockState = "draft"
     /\ \A t \in Tasks :
          task[t].op = "assets.lock" /\ task'[t] # task[t] =>
            LET target == LockTarget(projectAssets, task[t].input.projectId,
                                     task[t].input.assetId)
            IN  IF target = 0
                THEN /\ task'[t].resp = Respond(404, "Project asset not found")
                     /\ projectAssets' = projectAssets
                ELSE /\ task'[t].resp.status = 200
                     /\ projectAssets'
                          = [projectAssets EXCEPT ![target].lockState = "locked"]]_vars

\* the lock of an asset id under another project was answered 404 and the
\* asset is still draft; the lock of a locked asset was answered 200
C28_Witness ==
  \E t1, t2 \in Tasks :
    /\ task[t1].op = "assets.lock" /\ TaskEnded(t1) /\ task[t1].resp.status = 404
    /\ task[t1].input.projectId = "gamma" /\ task[t1].input.assetId = DraftMill
    /\ \E k \in DOMAIN projectAssets :
         projectAssets[k].id = DraftMill /\ projectAssets[k].lockState = "draft"
    /\ task[t2].op = "assets.lock" /\ TaskEnded(t2) /\ task[t2].resp.status = 200
    /\ task[t2].input.assetId = LockedAiko

(***************************************************************************)
(* C29.  A create-project request whose id already exists is always        *)
(* answered 400 "Project id already exists" and creates no row, also when  *)
(* two create requests with the same id are handled concurrently: a valid  *)
(* create request is answered either 201, and then it has created the one  *)
(* row of its id, or that 400.  At most one project row per id exists.     *)
(***************************************************************************)
C29_DuplicateProjectIs400 ==
  /\ \A t \in Tasks :
       /\ task[t].op = "projects.create"
       /\ TaskEnded(t)
       /\ ValidCreateProjectInput(task[t].input)
       => \/ task[t].resp = Respond(201, "")
          \/ task[t].resp = Respond(400, "Project id already exists")
  /\ \A k, m \in DOMAIN projects : projects[k].id = projects[m].id => k = m

(***************************************************************************)
(* C30.  Scene compilation.  The insert of scene i of a compile request    *)
(* for a project that has no compiled scene yet, or that has only the      *)
(* scenes 1..i-1 this request has inserted, adds one row with sceneIndex i *)
(* whose id is built from the project id and i alone; after the insert of  *)
(* scene N the request is answered 201 and the project has exactly the     *)
(* scenes 1..N.  The first insert of a compile request for a project that  *)
(* already has compiled scenes collides: the request ends with an internal *)
(* error, adds no row and changes no row.                                  *)
(***************************************************************************)
SceneIndexes(table, projectId) ==
  LET rows == RowsOfProject(table, projectId)
  IN  [k \in 1..Len(rows) |-> rows[k].sceneIndex]

C30_CompileOnce ==
  [][\A t \in Tasks :
       task[t].op = "scenes.compile" /\ task[t].pc = "compile_insert" /\ task'[t] # task[t] =>
         LET projectId == task[t].input.projectId
             n == task[t].input.sceneCount
             i == task[t].i
         IN  IF RowsOfProject(compiledScenes, projectId) = <<>> \/ i > 1
             THEN /\ Len(compiledScenes') = Len(compiledScenes) + 1
                  /\ SubSeq(compiledScenes', 1, Len(compiledScenes)) = compiledScenes
                  /\ compiledScenes'[Len(compiledScenes')].id = SceneId(projectId, i)
                  /\ compiledScenes'[Len(compiledScenes')].projectId = projectId
                  /\ compiledScenes'[Len(compiledScenes')].sceneIndex = i
                  /\ IF i = n
                     THEN /\ task'[t].resp = Respond(201, "")
                          /\ SceneIndexes(compiledScenes', projectId) = [k \in 1..n |-> k]
                     ELSE /\ task'[t].pc = "compile_insert"
                          /\ task'[t].i = i + 1
             ELSE /\ i = 1
                  /\ compiledScenes' = compiledScenes
                  /\ task'[t].resp = Respond(500, "Internal error")]_vars

\* of two compile requests for project delta one has created the two scenes
\* and the other has ended with the internal error
C30_Witness ==
  \E t1, t2 \in Tasks :
    /\ task[t1].op = "scenes.compile" /\ task[t2].op = "scenes.compile"
    /\ task[t1].input.projectId = "delta" /\ task[t2].input.projectId = "delta"
    /\ TaskEnded(t1) /\ task[t1].resp = Respond(201, "")
    /\ TaskEnded(t2) /\ task[t2].resp = Respond(500, "Internal error")
    /\ SceneIndexes(compiledScenes, "delta") = <<1, 2>>

====
